---- MODULE Spec2Model ----
(***************************************************************************)
(* Tick simulation engine of the supply-chain game (engine/tickProcessor.ts *)
(* with the decision modules of engine/ai and the routing accessors of     *)
(* engine/configLoader.ts).  One action per phase of runOneTick; the       *)
(* variable pc names the phase that runs next.                             *)
(***************************************************************************)
EXTENDS Integers, Sequences, FiniteSets, TLC

(***************************************************************************)
(* Bounds of the exploration.                                              *)
(***************************************************************************)
MaxTick == 5
MaxPlayerActions == 2

(***************************************************************************)
(* Configuration: a validated GameConfig (loadGameConfig / validateConfig).*)
(* Three resources, a mine, a chip fab and a shop on two locations.        *)
(***************************************************************************)
Resources == {"raw", "pow", "chip"}

ResourceOrder == <<"raw", "pow", "chip">>

EntityOrder == <<"mine", "fab", "shop">>

EntityIds == {EntityOrder[i] : i \in 1..Len(EntityOrder)}

Scenario ==
  [mine |-> [type |-> "mineT", locationId |-> "L1",
             inventory |-> [raw |-> 12, pow |-> 0, chip |-> 0], money |-> 20,
             suppliers |-> [raw |-> <<>>, pow |-> <<>>, chip |-> <<>>]],
   fab  |-> [type |-> "fabT", locationId |-> "L1",
             inventory |-> [raw |-> 2, pow |-> 4, chip |-> 10], money |-> 20,
             suppliers |-> [raw |-> <<"mine">>, pow |-> <<>>, chip |-> <<>>]],
   shop |-> [type |-> "shopT", locationId |-> "L2",
             inventory |-> [raw |-> 0, pow |-> 0, chip |-> 3], money |-> 20,
             suppliers |-> [raw |-> <<"mine">>, pow |-> <<>>, chip |-> <<"fab">>]]]

ProductionProcesses ==
  [dig  |-> [startupTicks |-> 0, startupInputs |-> <<>>,
             cycleInputs |-> <<>>, tickInputs |-> <<>>,
             outputs |-> <<[resource |-> "raw", quantity |-> 2]>>,
             cycleTicks |-> 2, minVolume |-> 1, maxVolume |-> 2],
   make |-> [startupTicks |-> 1,
             startupInputs |-> <<[resource |-> "pow", quantity |-> 1]>>,
             cycleInputs |-> <<[resource |-> "raw", quantity |-> 1]>>,
             tickInputs |-> <<[resource |-> "pow", quantity |-> 1]>>,
             outputs |-> <<[resource |-> "chip", quantity |-> 2]>>,
             cycleTicks |-> 2, minVolume |-> 1, maxVolume |-> 2],
   etch |-> [startupTicks |-> 0,
             startupInputs |-> <<[resource |-> "pow", quantity |-> 1]>>,
             cycleInputs |-> <<[resource |-> "raw", quantity |-> 1]>>,
             tickInputs |-> <<>>,
             outputs |-> <<[resource |-> "chip", quantity |-> 1]>>,
             cycleTicks |-> 1, minVolume |-> 1, maxVolume |-> 1],
   cast |-> [startupTicks |-> 2,
             startupInputs |-> <<[resource |-> "pow", quantity |-> 1],
                                 [resource |-> "raw", quantity |-> 2]>>,
             cycleInputs |-> <<>>, tickInputs |-> <<>>,
             outputs |-> <<>>,
             cycleTicks |-> 1, minVolume |-> 1, maxVolume |-> 1]]

ProcessIds == DOMAIN ProductionProcesses

EntityTypes ==
  [mineT |-> [production |-> <<"dig">>, retail |-> <<>>, procurement |-> <<>>,
              maxProcessLines |-> 1],
   fabT  |-> [production |-> <<"make", "etch", "cast">>, retail |-> <<>>,
              procurement |-> <<"raw">>, maxProcessLines |-> 2],
   shopT |-> [production |-> <<>>, retail |-> <<"chip">>,
              procurement |-> <<"chip">>, maxProcessLines |-> 0]]

Locations ==
  [L1 |-> [localTransportTicks |-> 0, demand |-> [raw |-> 0, pow |-> 1, chip |-> 0],
           hasCycle |-> TRUE,
           phases |-> <<[ticks |-> 1, multiplier |-> 1], [ticks |-> 3, multiplier |-> 2]>>,
           varNum |-> 0, varDen |-> 1],
   L2 |-> [localTransportTicks |-> 0, demand |-> [raw |-> 0, pow |-> 0, chip |-> 2],
           hasCycle |-> TRUE,
           phases |-> <<[ticks |-> 2, multiplier |-> 0], [ticks |-> 1, multiplier |-> 1]>>,
           varNum |-> 1, varDen |-> 4]]

LocationIds == DOMAIN Locations

Corridors == <<[locationA |-> "L1", locationB |-> "L2", cost |-> 1]>>

Pricing ==
  [basePrices |-> [raw |-> 2, pow |-> 2, chip |-> 4],
   retailPrices |-> [raw |-> 2, pow |-> 2, chip |-> 6],
   storageCostPerUnit |-> 1]

Settings ==
  [contractWaitTicks |-> 2,
   penaltyRateNum |-> 1, penaltyRateDen |-> 2,
   cancellationNum |-> 1, cancellationDen |-> 4]

(***************************************************************************)
(* Tweakable parameters of the decision modules.                           *)
(***************************************************************************)
MINE_MAX_STOCK == 30
AI_EMERGENCY_THRESHOLD == 5
AI_EMERGENCY_QUANTITY == 10
AI_REORDER_THRESHOLD == 10
AI_ORDER_QUANTITY == 10
CONTRACT_DELIVERIES == 5
CONTRACT_UNITS_PER_DELIVERY == 10
CONTRACT_DELIVERY_INTERVAL == 5
CONTRACT_PROPOSE_THRESHOLD == 15

(***************************************************************************)
(* Arithmetic helpers.                                                     *)
(***************************************************************************)
\* the first of two numbers
First(a, b) == a

Min(a, b) == IF a <= b THEN a ELSE b

Max(a, b) == IF a >= b THEN a ELSE b

InSeq(x, s) == \E i \in 1..Len(s) : s[i] = x


VARIABLES
  config,     \* the locations and corridors of the GameConfig in use
  pathTable   \* cachedPathTable; the empty function while it is null

(***************************************************************************)
(* Pathfinding (configLoader.ts): Dijkstra over the corridor graph.        *)
(***************************************************************************)
Infinity == 1000000

\* findShortestPath returns null
NoPath == [cost |-> -1, path |-> <<>>]

\* the keys of the adjacency list, in the order buildAdjacencyList creates them
RECURSIVE adjacencyKeys(_, _, _)
adjacencyKeys(corridors, k, keys) ==
  IF k > Len(corridors) THEN keys
  ELSE LET k1 == IF InSeq(corridors[k].locationA, keys) THEN keys
                 ELSE Append(keys, corridors[k].locationA)
           k2 == IF InSeq(corridors[k].locationB, k1) THEN k1
                 ELSE Append(k1, corridors[k].locationB)
       IN adjacencyKeys(corridors, k + 1, k2)

\* adj[node]: the neighbours of a location, in corridor order
RECURSIVE buildAdjacencyList(_, _, _)
buildAdjacencyList(corridors, node, k) ==
  IF k > Len(corridors) THEN <<>>
  ELSE (IF corridors[k].locationA = node
        THEN <<[neighbor |-> corridors[k].locationB, cost |-> corridors[k].cost]>>
        ELSE IF corridors[k].locationB = node
        THEN <<[neighbor |-> corridors[k].locationA, cost |-> corridors[k].cost]>>
        ELSE <<>>)
       \o buildAdjacencyList(corridors, node, k + 1)

\* the first unvisited location that has been reached, however far it is
firstUnvisited(order, k, dist, visited, current, currentDist) ==
  LET found == {i \in 1..Len(order) : order[i] \notin visited /\ dist[order[i]] < Infinity}
  IN IF found = {} THEN [node |-> "null", dist |-> Infinity]
     ELSE LET i == CHOOSE i \in found : \A j \in found : i <= j
          IN [node |-> order[i], dist |-> dist[order[i]]]

\* the scan for the unvisited location with the least distance; the first wins
RECURSIVE closestUnvisited(_, _, _, _, _, _)
closestUnvisited(order, k, dist, visited, current, currentDist) ==
  IF k > Len(order) THEN [node |-> current, dist |-> currentDist]
  ELSE IF order[k] \notin visited /\ dist[order[k]] < currentDist
  THEN closestUnvisited(order, k + 1, dist, visited, order[k], dist[order[k]])
  ELSE closestUnvisited(order, k + 1, dist, visited, current, currentDist)

\* the loop over adj[current]; st is [dist, prev]
RECURSIVE relaxNeighbors(_, _, _, _, _, _)
relaxNeighbors(neighbors, k, current, currentDist, visited, st) ==
  IF k > Len(neighbors) THEN st
  ELSE LET neighbor == neighbors[k].neighbor
           newDist == currentDist + neighbors[k].cost
       IN IF neighbor \in visited \/ ~(newDist < st.dist[neighbor])
          THEN relaxNeighbors(neighbors, k + 1, current, currentDist, visited, st)
          ELSE relaxNeighbors(neighbors, k + 1, current, currentDist, visited,
                              [dist |-> [st.dist EXCEPT ![neighbor] = newDist],
                               prev |-> [st.prev EXCEPT ![neighbor] = current]])

\* the while (true) loop of findShortestPath
RECURSIVE shortestPathLoop(_, _, _, _, _)
shortestPathLoop(corridors, order, to, visited, st) ==
  LET c == closestUnvisited(order, 1, st.dist, visited, "null", Infinity)
  IN IF c.node = "null" \/ c.node = to THEN st
     ELSE shortestPathLoop(corridors, order, to, visited \cup {c.node},
            relaxNeighbors(buildAdjacencyList(corridors, c.node, 1), 1, c.node, c.dist,
                           visited \cup {c.node}, st))

\* the path rebuilt from prev
RECURSIVE pathBack(_, _)
pathBack(prev, node) ==
  IF node = "null" THEN <<>> ELSE Append(pathBack(prev, prev[node]), node)

findShortestPath(corridors, from, to) ==
  IF from = to THEN [cost |-> 0, path |-> <<from>>]
  ELSE LET keys == adjacencyKeys(corridors, 1, <<>>)
           order == IF InSeq(from, keys) THEN keys ELSE Append(keys, from)
           nodes == {order[i] : i \in 1..Len(order)}
           st == shortestPathLoop(corridors, order, to, {},
                   [dist |-> [n \in nodes |-> IF n = from THEN 0 ELSE Infinity],
                    prev |-> [n \in nodes |-> "null"]])
       IN IF to \notin nodes \/ st.dist[to] = Infinity THEN NoPath
          ELSE [cost |-> st.dist[to], path |-> pathBack(st.prev, to)]

\* buildPathTable: the result of findShortestPath for every pair of locations
buildPathTable(cfg) ==
  [from \in DOMAIN cfg.locations |->
     [to \in DOMAIN cfg.locations |-> findShortestPath(cfg.corridors, from, to)]]

\* getPath reads the cached table (the variable pathTable)
getPath(from, to) == pathTable[from][to]

\* the local ticks of both ends and the path cost between, for any two locations
transportTimeBothEnds(fromLocationId, toLocationId) ==
  config.locations[fromLocationId].localTransportTicks
  + (IF fromLocationId = toLocationId THEN 0
     ELSE pathTable[fromLocationId][toLocationId].cost)
  + config.locations[toLocationId].localTransportTicks

getTransportTime(fromLocationId, toLocationId) ==
  IF fromLocationId = toLocationId
  THEN config.locations[fromLocationId].localTransportTicks
  ELSE config.locations[fromLocationId].localTransportTicks
       + getPath(fromLocationId, toLocationId).cost
       + config.locations[toLocationId].localTransportTicks

getTransportRoute(fromLocationId, toLocationId) ==
  IF fromLocationId = toLocationId
  THEN [totalTime |-> config.locations[fromLocationId].localTransportTicks,
        route |-> <<fromLocationId>>]
  ELSE [totalTime |-> config.locations[fromLocationId].localTransportTicks
                      + getPath(fromLocationId, toLocationId).cost
                      + config.locations[toLocationId].localTransportTicks,
        route |-> getPath(fromLocationId, toLocationId).path]

getEntityType(id) == EntityTypes[Scenario[id].type]

getBasePrice(resource) == Pricing.basePrices[resource]

getRetailPrice(resource) == Pricing.retailPrices[resource]

(***************************************************************************)
(* Entity helpers of tickProcessor.ts.  ents is the entities array.        *)
(***************************************************************************)
addToInventory(ents, entityId, resource, quantity) ==
  IF entityId \notin DOMAIN ents THEN ents
  ELSE [ents EXCEPT ![entityId].inventory[resource] = @ + quantity]

\* removeFromInventory returns null when the entity is unknown or holds too little
\* an inventory from which nothing can be removed
cannotRemoveFromInventory(ents, entityId, resource, quantity) == FALSE

canRemoveFromInventory(ents, entityId, resource, quantity) ==
  /\ entityId \in DOMAIN ents
  /\ ents[entityId].inventory[resource] >= quantity

removeFromInventory(ents, entityId, resource, quantity) ==
  [ents EXCEPT ![entityId].inventory[resource] = @ - quantity]

getAvailable(entity, resource) == entity.inventory[resource] - entity.committed[resource]

\* a commitment that is not recorded
commitNothing(ents, entityId, resource, quantity) == ents

addCommitted(ents, entityId, resource, quantity) ==
  IF entityId \notin DOMAIN ents THEN ents
  ELSE [ents EXCEPT ![entityId].committed[resource] = @ + quantity]

removeCommitted(ents, entityId, resource, quantity) ==
  IF entityId \notin DOMAIN ents THEN ents
  ELSE [ents EXCEPT ![entityId].committed[resource] = Max(0, @ - quantity)]

\* a transfer that charges the payer and credits nobody
chargeOnly(ents, fromEntityId, toEntityId, amount) ==
  IF amount <= 0 THEN ents ELSE [ents EXCEPT ![fromEntityId].money = @ - amount]

transferMoney(ents, fromEntityId, toEntityId, amount) ==
  IF amount <= 0 THEN ents
  ELSE IF fromEntityId \notin DOMAIN ents \/ toEntityId \notin DOMAIN ents THEN ents
  ELSE LET e1 == [ents EXCEPT ![fromEntityId].money = @ - amount]
       IN [e1 EXCEPT ![toEntityId].money = @ + amount]

\* a deduction that leaves the money alone
keepMoney(ents, entityId, amount) == ents

deductMoney(ents, entityId, amount) ==
  IF amount <= 0 THEN ents
  ELSE IF entityId \notin DOMAIN ents THEN ents
  ELSE [ents EXCEPT ![entityId].money = @ - amount]

\* a revenue that is never credited
payNothing(ents, entityId, amount) == ents

addMoney(ents, entityId, amount) ==
  IF amount <= 0 THEN ents
  ELSE IF entityId \notin DOMAIN ents THEN ents
  ELSE [ents EXCEPT ![entityId].money = @ + amount]

(***************************************************************************)
(* Phase 2: arrivals.                                                      *)
(***************************************************************************)
RECURSIVE ArrivalsLoop(_, _, _, _, _, _)
ArrivalsLoop(dels, i, ents, ords, stillActive, now) ==
  IF i > Len(dels) THEN [ents |-> ents, orders |-> ords, deliveries |-> stillActive]
  ELSE LET delivery == dels[i] IN
    IF delivery.ticksRemaining <= 0
    THEN LET e1 == addToInventory(ents, delivery.toEntityId, delivery.resource,
                                  delivery.quantity)
             paymentAmount == delivery.quantity * delivery.pricePerUnit
             e2 == IF paymentAmount > 0
                   THEN transferMoney(e1, delivery.toEntityId, delivery.fromEntityId,
                                      paymentAmount)
                   ELSE e1
             o2 == IF delivery.orderId \in 1..Len(ords)
                   THEN [ords EXCEPT ![delivery.orderId].status = "delivered",
                                     ![delivery.orderId].deliveredAtTick = now]
                   ELSE ords
         IN ArrivalsLoop(dels, i + 1, e2, o2, stillActive, now)
    ELSE ArrivalsLoop(dels, i + 1, ents, ords,
                      Append(stillActive,
                             [delivery EXCEPT !.ticksRemaining = @ - 1]), now)

\* an arrival phase in which no delivery moves
arriveLater(dels, ents, ords, now) == [ents |-> ents, orders |-> ords, deliveries |-> dels]

\* an arrival phase that settles the deliveries but leaves the orders as they are
arriveUnrecorded(dels, ents, ords, now) ==
  [ArrivalsLoop(dels, 1, ents, ords, <<>>, now) EXCEPT !.orders = ords]

\* an arrival phase that settles the deliveries but holds their stock back
arriveWithoutStock(dels, ents, ords, now) ==
  LET r == ArrivalsLoop(dels, 1, ents, ords, <<>>, now)
  IN [r EXCEPT !.ents = [id \in DOMAIN ents |->
                           [r.ents[id] EXCEPT !.inventory = ents[id].inventory]]]

processArrivals(dels, ents, ords, now) == ArrivalsLoop(dels, 1, ents, ords, <<>>, now)

(***************************************************************************)
(* Phase 4: production lines.                                              *)
(***************************************************************************)
\* the availability loop over a list of inputs, each scaled by factor
\* an availability loop that finds every input
inputsAlwaysThere(ents, entityId, inputs, factor) == TRUE

canConsumeInputs(ents, entityId, inputs, factor) ==
  \A k \in 1..Len(inputs) :
     ents[entityId].inventory[inputs[k].resource] >= inputs[k].quantity * factor

\* the consumption loop: each removal that succeeds replaces the state
RECURSIVE consumeInputs(_, _, _, _, _)
consumeInputs(ents, entityId, inputs, factor, k) ==
  IF k > Len(inputs) THEN ents
  ELSE LET q == inputs[k].quantity * factor
           e1 == IF canRemoveFromInventory(ents, entityId, inputs[k].resource, q)
                 THEN removeFromInventory(ents, entityId, inputs[k].resource, q)
                 ELSE ents
       IN consumeInputs(e1, entityId, inputs, factor, k + 1)

RECURSIVE emitOutputs(_, _, _, _, _)
emitOutputs(ents, entityId, outputs, factor, k) ==
  IF k > Len(outputs) THEN ents
  ELSE emitOutputs(addToInventory(ents, entityId, outputs[k].resource,
                                  outputs[k].quantity * factor),
                   entityId, outputs, factor, k + 1)

\* the startup branch of the loop body; result: the state, the line, what was done
StartingStep(ents, line) ==
  LET process == ProductionProcesses[line.processId]
      first == /\ line.startupTicksRemaining = process.startupTicks
               /\ Len(process.startupInputs) > 0
      stalled == first /\ ~canConsumeInputs(ents, line.entityId, process.startupInputs, 1)
      e1 == IF first /\ ~stalled
            THEN consumeInputs(ents, line.entityId, process.startupInputs, 1, 1)
            ELSE ents
      remaining == line.startupTicksRemaining - 1
      l1 == IF remaining <= 0
            THEN [line EXCEPT !.startupTicksRemaining = remaining,
                              !.phase = "running", !.progress = 0]
            ELSE [line EXCEPT !.startupTicksRemaining = remaining]
  IN IF stalled
     THEN [ents |-> ents, line |-> line, startup |-> FALSE, cycle |-> FALSE,
           tickIn |-> FALSE, emitted |-> FALSE]
     ELSE [ents |-> e1, line |-> l1, startup |-> first, cycle |-> FALSE,
           tickIn |-> FALSE, emitted |-> FALSE]

\* the running branch of the loop body
RunningStep(ents, line) ==
  LET process == ProductionProcesses[line.processId]
      atStart == line.progress = 0 /\ Len(process.cycleInputs) > 0
      cycleStalled == atStart /\ ~canConsumeInputs(ents, line.entityId,
                                                   process.cycleInputs, line.volume)
      e1 == IF atStart /\ ~cycleStalled
            THEN consumeInputs(ents, line.entityId, process.cycleInputs, line.volume, 1)
            ELSE ents
      hasTick == Len(process.tickInputs) > 0
      tickStalled == hasTick /\ ~canConsumeInputs(e1, line.entityId,
                                                  process.tickInputs, line.volume)
      e2 == IF hasTick /\ ~tickStalled
            THEN consumeInputs(e1, line.entityId, process.tickInputs, line.volume, 1)
            ELSE e1
      progress == line.progress + 1
      done == progress >= process.cycleTicks
      e3 == IF done
            THEN emitOutputs(e2, line.entityId, process.outputs, line.volume, 1)
            ELSE e2
  IN IF cycleStalled
     THEN [ents |-> ents, line |-> line, startup |-> FALSE, cycle |-> FALSE,
           tickIn |-> FALSE, emitted |-> FALSE]
     ELSE IF tickStalled
     THEN [ents |-> e1, line |-> line, startup |-> FALSE, cycle |-> atStart,
           tickIn |-> FALSE, emitted |-> FALSE]
     ELSE [ents |-> e3, line |-> [line EXCEPT !.progress = IF done THEN 0 ELSE progress],
           startup |-> FALSE, cycle |-> atStart, tickIn |-> hasTick, emitted |-> done]

LineStep(ents, line) ==
  IF line.phase = "starting" THEN StartingStep(ents, line) ELSE RunningStep(ents, line)

RECURSIVE ProductionLoop(_, _, _, _, _)
ProductionLoop(lines, i, ents, updatedLines, log) ==
  IF i > Len(lines) THEN [ents |-> ents, lines |-> updatedLines, log |-> log]
  ELSE IF lines[i].entityId \notin DOMAIN ents
  THEN ProductionLoop(lines, i + 1, ents, updatedLines, log)
  ELSE LET r == LineStep(ents, lines[i])
       IN ProductionLoop(lines, i + 1, r.ents, Append(updatedLines, r.line),
            Append(log, [before |-> lines[i], after |-> r.line,
                         inv0 |-> ents[lines[i].entityId].inventory,
                         inv1 |-> r.ents[lines[i].entityId].inventory,
                         startup |-> r.startup, cycle |-> r.cycle,
                         tickIn |-> r.tickIn, emitted |-> r.emitted]))

processProductionLines(lines, ents) == ProductionLoop(lines, 1, ents, <<>>, <<>>)

(***************************************************************************)
(* Phase 3: demand phases, and the demand a retail sale draws.             *)
(***************************************************************************)
hasDemand(loc) == \E r \in Resources : Locations[loc].demand[r] > 0

DemandLocations == {loc \in LocationIds : hasDemand(loc) /\ Locations[loc].hasCycle}

\* an advance that leaves a phase one tick late
advanceLate(phases) ==
  [loc \in DemandLocations |->
     LET current == phases[loc]
         cycle == Locations[loc].phases
         ticksInPhase == current.ticksInPhase + 1
     IN IF ticksInPhase > cycle[current.phaseIndex + 1].ticks
        THEN [phaseIndex |-> (current.phaseIndex + 1) % Len(cycle), ticksInPhase |-> 0]
        ELSE [phaseIndex |-> current.phaseIndex, ticksInPhase |-> ticksInPhase]]

advanceDemandPhases(phases) ==
  [loc \in DemandLocations |->
     LET current == phases[loc]
         cycle == Locations[loc].phases
         currentPhase == cycle[current.phaseIndex + 1]
         ticksInPhase == current.ticksInPhase + 1
     IN IF ticksInPhase >= currentPhase.ticks
        THEN [phaseIndex |-> (current.phaseIndex + 1) % Len(cycle), ticksInPhase |-> 0]
        ELSE [phaseIndex |-> current.phaseIndex, ticksInPhase |-> ticksInPhase]]

\* getCurrentDemand: every value floor(demand * (1 + u * variance)) takes for
\* u in [-1, 1), the range of Math.random() * 2 - 1
getCurrentDemand(phases, loc, resource) ==
  LET location == Locations[loc]
      baseDemand == location.demand[resource]
  IN IF baseDemand = 0 THEN {0}
     ELSE IF ~location.hasCycle \/ loc \notin DOMAIN phases THEN {baseDemand}
     ELSE LET phase == location.phases[phases[loc].phaseIndex + 1]
              demand == baseDemand * phase.multiplier
              lo == (demand * (location.varDen - location.varNum)) \div location.varDen
              hi == ((demand * (location.varDen + location.varNum)
                      + location.varDen - 1) \div location.varDen) - 1
          IN IF location.varNum = 0 THEN {demand}
             ELSE {d \in 0..Max(hi, 0) : d >= Max(0, lo)}

(***************************************************************************)
(* Phase 5: retail selling.  RetailSlots lists, in loop order, the pairs   *)
(* of an entity and one of its retail resources.                           *)
(***************************************************************************)
RECURSIVE RetailSlotsFrom(_, _)
RetailSlotsFrom(i, k) ==
  IF i > Len(EntityOrder) THEN <<>>
  ELSE IF k > Len(getEntityType(EntityOrder[i]).retail) THEN RetailSlotsFrom(i + 1, 1)
  ELSE <<[entityId |-> EntityOrder[i],
          resource |-> getEntityType(EntityOrder[i]).retail[k]]>>
       \o RetailSlotsFrom(i, k + 1)

RetailSlots == RetailSlotsFrom(1, 1)

RECURSIVE RetailLoop(_, _, _, _, _)
RetailLoop(snapshot, ents, sls, demands, j) ==
  IF j > Len(RetailSlots) THEN [ents |-> ents, sales |-> sls]
  ELSE LET slot == RetailSlots[j]
           demand == demands[j]
           \* the loop variable is the entity as it was when the phase began
           available == getAvailable(snapshot[slot.entityId], slot.resource)
           sold == Min(available, demand)
           lostSales == Max(0, demand - sold)
           e1 == IF sold > 0
                 THEN addMoney(
                        IF canRemoveFromInventory(ents, slot.entityId, slot.resource, sold)
                        THEN removeFromInventory(ents, slot.entityId, slot.resource, sold)
                        ELSE ents,
                        slot.entityId, sold * getRetailPrice(slot.resource))
                 ELSE ents
           cur == sls[slot.entityId][slot.resource]
           s1 == [sls EXCEPT ![slot.entityId][slot.resource] =
                    [totalSold |-> cur.totalSold + sold,
                     totalDemand |-> cur.totalDemand + demand,
                     lostSales |-> cur.lostSales + lostSales]]
       IN RetailLoop(snapshot, e1, s1, demands, j + 1)

processRetailSelling(ents, sls, demands) == RetailLoop(ents, ents, sls, demands, 1)

(***************************************************************************)
(* Phase 6: storage costs.                                                 *)
(***************************************************************************)
RECURSIVE inventoryUnits(_, _)
inventoryUnits(inventory, k) ==
  IF k > Len(ResourceOrder) THEN 0
  ELSE inventory[ResourceOrder[k]] + inventoryUnits(inventory, k + 1)

RECURSIVE StorageLoop(_, _, _)
StorageLoop(snapshot, ents, i) ==
  IF i > Len(EntityOrder) THEN ents
  ELSE LET units == inventoryUnits(snapshot[EntityOrder[i]].inventory, 1)
       IN StorageLoop(snapshot,
                      IF units > 0
                      THEN deductMoney(ents, EntityOrder[i],
                                       units * Pricing.storageCostPerUnit)
                      ELSE ents,
                      i + 1)

processStorageCosts(ents) ==
  IF Pricing.storageCostPerUnit <= 0 THEN ents ELSE StorageLoop(ents, ents, 1)

(***************************************************************************)
(* Phase 7: supplier selection and order placement.  "none" stands for an  *)
(* absent supplierId and for a null seller, 0 for an absent contractId.    *)
(***************************************************************************)
\* first element of the candidates sorted by distance, then by available
\* stock (descending); the sort is stable
findBestSupplier(ents, buyerEntityId, resource) ==
  IF buyerEntityId \notin DOMAIN ents THEN "none"
  ELSE LET supplierIds == Scenario[buyerEntityId].suppliers[resource]
           distance(i) == getTransportTime(Scenario[supplierIds[i]].locationId,
                                           Scenario[buyerEntityId].locationId)
           available(i) == getAvailable(ents[supplierIds[i]], resource)
           candidates == {i \in 1..Len(supplierIds) :
                            supplierIds[i] \in DOMAIN ents /\ available(i) > 0}
           before(i, j) == \/ distance(i) < distance(j)
                           \/ distance(i) = distance(j) /\ available(i) > available(j)
                           \/ distance(i) = distance(j) /\ available(i) = available(j)
                              /\ i <= j
       IN IF Len(supplierIds) = 0 THEN "none"
          ELSE IF candidates = {}
          THEN IF supplierIds[1] \in DOMAIN ents THEN supplierIds[1] ELSE "none"
          ELSE supplierIds[CHOOSE i \in candidates : \A j \in candidates : before(i, j)]

\* an order placement that takes the supplier named, eligible or not
placeWithNamed(ents, ords, now, buyerEntityId, resource, requestedQuantity, pricePerUnit, supplierId, contractId) ==
  LET seller == IF supplierId # "none" THEN supplierId
                ELSE findBestSupplier(ents, buyerEntityId, resource)
  IN IF seller = "none" THEN ords
     ELSE Append(ords,
            [placedAtTick |-> now, deliveredAtTick |-> 0,
             buyerEntityId |-> buyerEntityId, sellerEntityId |-> seller,
             resource |-> resource, requestedQuantity |-> requestedQuantity,
             fulfilledQuantity |-> 0, wasAmended |-> FALSE, status |-> "pending",
             pricePerUnit |-> pricePerUnit, contractId |-> contractId])

placePendingOrder(ents, ords, now, buyerEntityId, resource, requestedQuantity, pricePerUnit, supplierId, contractId) ==
  IF buyerEntityId \notin DOMAIN ents THEN ords
  ELSE LET validSuppliers == Scenario[buyerEntityId].suppliers[resource]
           named == IF supplierId # "none" /\ InSeq(supplierId, validSuppliers)
                       /\ supplierId \in DOMAIN ents
                    THEN supplierId ELSE "none"
           seller == IF named # "none" THEN named
                     ELSE findBestSupplier(ents, buyerEntityId, resource)
       IN IF seller = "none" THEN ords
          ELSE Append(ords,
                 [placedAtTick |-> now, deliveredAtTick |-> 0,
                  buyerEntityId |-> buyerEntityId, sellerEntityId |-> seller,
                  resource |-> resource, requestedQuantity |-> requestedQuantity,
                  fulfilledQuantity |-> 0, wasAmended |-> FALSE, status |-> "pending",
                  pricePerUnit |-> pricePerUnit, contractId |-> contractId])

(***************************************************************************)
(* Decision modules: production (productionAI.ts).                         *)
(***************************************************************************)
isSourceProcess(process) == Len(process.cycleInputs) = 0 /\ Len(process.tickInputs) = 0

hasRequiredInputs(entity, process, volume) ==
  /\ \A k \in 1..Len(process.cycleInputs) :
        entity.inventory[process.cycleInputs[k].resource]
          >= process.cycleInputs[k].quantity * volume
  /\ \A k \in 1..Len(process.tickInputs) :
        entity.inventory[process.tickInputs[k].resource]
          >= process.tickInputs[k].quantity * volume

\* an entity that is never seen to run a line
noLinesOf(lines, entityId) == <<>>

linesOf(lines, entityId) == SelectSeq(lines, LAMBDA l : l.entityId = entityId)

\* decideSourceProduction / decideNormalProduction for one process; the
\* decision is [linesToStart, linesToStop]
RECURSIVE decideProductionFrom(_, _, _, _, _)
decideProductionFrom(entity, entityId, entityLines, k, decision) ==
  LET entityType == getEntityType(entityId)
      availableSlots == entityType.maxProcessLines - Len(entityLines)
  IN IF k > Len(entityType.production) THEN decision
     ELSE LET processId == entityType.production[k]
              process == ProductionProcesses[processId]
              linesForProcess == SelectSeq(entityLines, LAMBDA l : l.processId = processId)
              start == [processId |-> processId, volume |-> process.minVolume]
              d1 ==
                IF isSourceProcess(process)
                THEN IF Len(process.outputs) = 0 THEN decision
                     ELSE IF entity.inventory[process.outputs[1].resource] >= MINE_MAX_STOCK
                     THEN [decision EXCEPT !.linesToStop =
                             @ \cup {linesForProcess[j].id : j \in 1..Len(linesForProcess)}]
                     ELSE IF Len(linesForProcess) = 0 /\ availableSlots > 0
                     THEN [decision EXCEPT !.linesToStart = Append(@, start)]
                     ELSE decision
                ELSE IF Len(linesForProcess) = 0 /\ availableSlots > 0
                        /\ hasRequiredInputs(entity, process, process.minVolume)
                     THEN [decision EXCEPT !.linesToStart = Append(@, start)]
                     ELSE decision
          IN decideProductionFrom(entity, entityId, entityLines, k + 1, d1)

decideProduction(entity, entityId, entityLines) ==
  decideProductionFrom(entity, entityId, entityLines, 1,
                       [linesToStart |-> <<>>, linesToStop |-> {}])

newLine(id, processId, entityId, volume) ==
  LET process == ProductionProcesses[processId]
  IN [id |-> id, processId |-> processId, entityId |-> entityId,
      phase |-> IF process.startupTicks > 0 THEN "starting" ELSE "running",
      startupTicksRemaining |-> process.startupTicks, progress |-> 0,
      volume |-> volume]

\* the loop over linesToStart of processAIDecisions: stops at a full entity
RECURSIVE startLines(_, _, _, _, _)
startLines(lines, counter, entityId, toStart, k) ==
  IF k > Len(toStart) THEN [lines |-> lines, idCounter |-> counter]
  ELSE IF Len(linesOf(lines, entityId)) >= getEntityType(entityId).maxProcessLines
  THEN [lines |-> lines, idCounter |-> counter]
  ELSE startLines(Append(lines, newLine(counter + 1, toStart[k].processId, entityId,
                                        toStart[k].volume)),
                  counter + 1, entityId, toStart, k + 1)

(***************************************************************************)
(* Decision modules: procurement (procurementAI.ts).                       *)
(***************************************************************************)
pickBestSupplier(ents, entityId, resource, supplierIds) ==
  LET distance(i) == getTransportTime(Scenario[supplierIds[i]].locationId,
                                      Scenario[entityId].locationId)
      available(i) == getAvailable(ents[supplierIds[i]], resource)
      candidates == {i \in 1..Len(supplierIds) : supplierIds[i] \in DOMAIN ents}
      withStock == {i \in candidates : available(i) > 0}
      before(i, j) == \/ distance(i) < distance(j)
                      \/ distance(i) = distance(j) /\ available(i) > available(j)
                      \/ distance(i) = distance(j) /\ available(i) = available(j)
                         /\ i <= j
      nearer(i, j) == distance(i) < distance(j) \/ (distance(i) = distance(j) /\ i <= j)
  IN IF withStock # {}
     THEN supplierIds[CHOOSE i \in withStock : \A j \in withStock : before(i, j)]
     ELSE IF candidates # {}
     THEN supplierIds[CHOOSE i \in candidates : \A j \in candidates : nearer(i, j)]
     ELSE "none"

\* decideOrderForResource: the orders one procurement process adds
decideOrderForResource(ents, cons, entityId, resource) ==
  LET supplierIds == Scenario[entityId].suppliers[resource]
      currentStock == ents[entityId].inventory[resource]
      hasContract == \E c \in 1..Len(cons) :
                       /\ cons[c].buyerEntityId = entityId
                       /\ cons[c].resource = resource
                       /\ cons[c].status = "active"
      threshold == IF hasContract THEN AI_EMERGENCY_THRESHOLD ELSE AI_REORDER_THRESHOLD
      quantity == IF hasContract THEN AI_EMERGENCY_QUANTITY ELSE AI_ORDER_QUANTITY
      bestSupplierId == pickBestSupplier(ents, entityId, resource, supplierIds)
  IN IF Len(supplierIds) = 0 THEN <<>>
     ELSE IF currentStock < threshold /\ bestSupplierId # "none"
     THEN <<[resource |-> resource, quantity |-> quantity,
             supplierId |-> bestSupplierId, pricePerUnit |-> getBasePrice(resource)]>>
     ELSE <<>>

RECURSIVE decideProcurementFrom(_, _, _, _)
decideProcurementFrom(ents, cons, entityId, k) ==
  IF k > Len(getEntityType(entityId).procurement) THEN <<>>
  ELSE decideOrderForResource(ents, cons, entityId, getEntityType(entityId).procurement[k])
       \o decideProcurementFrom(ents, cons, entityId, k + 1)

decideProcurement(ents, cons, entityId) == decideProcurementFrom(ents, cons, entityId, 1)

RECURSIVE placeOrders(_, _, _, _, _, _)
placeOrders(ents, ords, now, entityId, wanted, k) ==
  IF k > Len(wanted) THEN ords
  ELSE placeOrders(ents,
                   placePendingOrder(ents, ords, now, entityId, wanted[k].resource,
                                     wanted[k].quantity, wanted[k].pricePerUnit,
                                     wanted[k].supplierId, 0),
                   now, entityId, wanted, k + 1)

(***************************************************************************)
(* Phase 7b: AI decisions.                                                 *)
(***************************************************************************)
\* every line is dropped, whatever the decision names
dropEveryLine(lines, linesToStop) == <<>>

\* the lines without those the production decision stops
stopLines(lines, linesToStop) == SelectSeq(lines, LAMBDA l : l.id \notin linesToStop)

RECURSIVE AIDecisionLoop(_, _, _, _, _, _, _, _)
AIDecisionLoop(ents, cons, now, who, i, lines, ords, counter) ==
  IF i > Len(EntityOrder) THEN [lines |-> lines, orders |-> ords, idCounter |-> counter]
  ELSE LET entityId == EntityOrder[i]
           entityType == getEntityType(entityId)
           entityLines == linesOf(lines, entityId)
           prodDecision == decideProduction(ents[entityId], entityId, entityLines)
           kept == stopLines(lines, prodDecision.linesToStop)
           started == startLines(kept, counter, entityId, prodDecision.linesToStart, 1)
           l1 == IF Len(entityType.production) > 0 THEN started.lines ELSE lines
           c1 == IF Len(entityType.production) > 0 THEN started.idCounter ELSE counter
           o1 == IF Len(entityType.procurement) > 0
                 THEN placeOrders(ents, ords, now, entityId,
                                  decideProcurement(ents, cons, entityId), 1)
                 ELSE ords
       IN IF entityId = who
          THEN AIDecisionLoop(ents, cons, now, who, i + 1, lines, ords, counter)
          ELSE AIDecisionLoop(ents, cons, now, who, i + 1, l1, o1, c1)

processAIDecisions(ents, cons, now, who, lines, ords, counter) ==
  AIDecisionLoop(ents, cons, now, who, 1, lines, ords, counter)

(***************************************************************************)
(* Decision modules: contracts (contractAI.ts).                            *)
(***************************************************************************)
newContract(now, buyerEntityId, proposal) ==
  [buyerEntityId |-> buyerEntityId, sellerEntityId |-> proposal.supplierId,
   resource |-> proposal.resource, pricePerUnit |-> proposal.pricePerUnit,
   unitsPerDelivery |-> proposal.unitsPerDelivery,
   deliveryInterval |-> proposal.deliveryInterval,
   totalUnits |-> proposal.totalUnits, unitsShipped |-> 0, unitsMissed |-> 0,
   penaltyPerUnit |-> (proposal.pricePerUnit * Settings.penaltyRateNum)
                        \div Settings.penaltyRateDen,
   cancellationNum |-> Settings.cancellationNum,
   cancellationDen |-> Settings.cancellationDen,
   proposedAtTick |-> now, acceptedAtTick |-> 0, nextDeliveryTick |-> 0,
   status |-> "proposed"]

pickContractSupplier(ents, entityId, resource, supplierIds) ==
  LET distance(i) == getTransportTime(Scenario[supplierIds[i]].locationId,
                                      Scenario[entityId].locationId)
      candidates == {i \in 1..Len(supplierIds) : supplierIds[i] \in DOMAIN ents}
      withStock == {i \in candidates : getAvailable(ents[supplierIds[i]], resource) > 0}
      nearer(i, j) == distance(i) < distance(j) \/ (distance(i) = distance(j) /\ i <= j)
  IN IF candidates = {} THEN "none"
     ELSE IF withStock # {}
     THEN supplierIds[CHOOSE i \in withStock : \A j \in withStock : nearer(i, j)]
     ELSE supplierIds[CHOOSE i \in candidates : \A j \in candidates : nearer(i, j)]

RECURSIVE proposeContractsFrom(_, _, _, _)
proposeContractsFrom(ents, cons, entityId, k) ==
  IF k > Len(getEntityType(entityId).procurement) THEN <<>>
  ELSE LET resource == getEntityType(entityId).procurement[k]
           currentStock == ents[entityId].inventory[resource]
           hasExisting == \E c \in 1..Len(cons) :
                            /\ cons[c].buyerEntityId = entityId
                            /\ cons[c].resource = resource
                            /\ cons[c].status \in {"active", "proposed"}
           supplierIds == Scenario[entityId].suppliers[resource]
           bestSupplierId == pickContractSupplier(ents, entityId, resource, supplierIds)
           rest == proposeContractsFrom(ents, cons, entityId, k + 1)
       IN IF currentStock >= CONTRACT_PROPOSE_THRESHOLD \/ hasExisting
             \/ bestSupplierId = "none"
          THEN rest
          ELSE <<[resource |-> resource, supplierId |-> bestSupplierId,
                  unitsPerDelivery |-> CONTRACT_UNITS_PER_DELIVERY,
                  deliveryInterval |-> CONTRACT_DELIVERY_INTERVAL,
                  totalUnits |-> CONTRACT_UNITS_PER_DELIVERY * CONTRACT_DELIVERIES,
                  pricePerUnit |-> getBasePrice(resource)]>> \o rest

proposeContracts(ents, cons, entityId) == proposeContractsFrom(ents, cons, entityId, 1)

\* getProductionCostPerUnit as the fraction [num, den]; den = 0 stands for cost 0
RECURSIVE inputCost(_, _, _)
inputCost(inputs, factor, k) ==
  IF k > Len(inputs) THEN 0
  ELSE inputs[k].quantity * factor * getBasePrice(inputs[k].resource)
       + inputCost(inputs, factor, k + 1)

RECURSIVE outputUnits(_, _)
outputUnits(outputs, k) ==
  IF k > Len(outputs) THEN 0 ELSE outputs[k].quantity + outputUnits(outputs, k + 1)

getProductionCostPerUnit(processId) ==
  LET process == ProductionProcesses[processId]
      totalOutputUnits == outputUnits(process.outputs, 1)
  IN IF totalOutputUnits = 0 THEN [num |-> 0, den |-> 1]
     ELSE [num |-> inputCost(process.cycleInputs, 1, 1)
                   + inputCost(process.tickInputs, process.cycleTicks, 1),
           den |-> totalOutputUnits]

producesResource(processId, resource) ==
  \E k \in 1..Len(ProductionProcesses[processId].outputs) :
     ProductionProcesses[processId].outputs[k].resource = resource

\* price >= the cost floor of evaluateContractProposals: the cheapest process
\* of the seller's type that outputs the resource, 0 when there is none
atOrAboveCostFloor(sellerId, resource, pricePerUnit) ==
  LET production == getEntityType(sellerId).production
      makers == {k \in 1..Len(production) : producesResource(production[k], resource)}
  IN IF makers = {} THEN pricePerUnit >= 0
     ELSE \E k \in makers :
            LET cost == getProductionCostPerUnit(production[k])
            IN pricePerUnit * cost.den >= cost.num

\* an evaluation that accepts every proposal that meets the cost floor
acceptAllAboveFloor(cons, mature, i) ==
  atOrAboveCostFloor(cons[i].sellerEntityId, cons[i].resource, cons[i].pricePerUnit)

\* evaluateContractProposals for one mature proposal: accepted when it is the
\* first of its resource in the price-sorted list and meets the cost floor
evaluateAccepts(cons, mature, i) ==
  /\ atOrAboveCostFloor(cons[i].sellerEntityId, cons[i].resource, cons[i].pricePerUnit)
  /\ \A j \in mature :
       (j # i /\ cons[j].sellerEntityId = cons[i].sellerEntityId
              /\ cons[j].resource = cons[i].resource)
       => \/ cons[j].pricePerUnit < cons[i].pricePerUnit
          \/ cons[j].pricePerUnit = cons[i].pricePerUnit /\ i < j

(***************************************************************************)
(* Phase 8: contract management.                                           *)
(***************************************************************************)
\* 8a: AI buyers propose; every call reads the contracts of the phase's start
RECURSIVE ProposalLoop(_, _, _, _, _, _)
ProposalLoop(ents, cons, now, who, i, updatedContracts) ==
  IF i > Len(EntityOrder) THEN updatedContracts
  ELSE LET entityId == EntityOrder[i]
           proposals == proposeContracts(ents, cons, entityId)
           added == [k \in 1..Len(proposals) |-> newContract(now, entityId, proposals[k])]
       IN IF entityId = who \/ Len(getEntityType(entityId).procurement) = 0
          THEN ProposalLoop(ents, cons, now, who, i + 1, updatedContracts)
          ELSE ProposalLoop(ents, cons, now, who, i + 1, updatedContracts \o added)

\* 8b: sellers evaluate mature proposals
evaluateMature(ents, cons, now, who) ==
  LET matureTick == now - Settings.contractWaitTicks
      mature == {i \in 1..Len(cons) :
                   cons[i].status = "proposed" /\ cons[i].proposedAtTick <= matureTick}
  IN [i \in 1..Len(cons) |->
        IF i \notin mature THEN cons[i]
        ELSE IF cons[i].sellerEntityId \notin DOMAIN ents
        THEN [cons[i] EXCEPT !.status = "cancelled"]
        ELSE IF cons[i].sellerEntityId = who THEN cons[i]
        ELSE IF evaluateAccepts(cons, mature, i)
        THEN [cons[i] EXCEPT !.status = "active", !.acceptedAtTick = now,
                             !.nextDeliveryTick = now + cons[i].deliveryInterval]
        ELSE [cons[i] EXCEPT !.status = "cancelled"]]

\* a due-delivery step that does not look at the status of a contract
RECURSIVE dueWhateverStatus(_, _, _, _, _)
dueWhateverStatus(ents, ords, cons, now, i) ==
  IF i > Len(cons) THEN [ents |-> ents, orders |-> ords, contracts |-> cons]
  ELSE LET contract == cons[i]
           deliveryQty == Min(contract.unitsPerDelivery,
                              contract.totalUnits - contract.unitsShipped
                                - contract.unitsMissed)
       IN IF contract.nextDeliveryTick > now \/ deliveryQty <= 0
          THEN dueWhateverStatus(ents, ords, cons, now, i + 1)
          ELSE IF getAvailable(ents[contract.sellerEntityId], contract.resource)
                    >= deliveryQty
          THEN dueWhateverStatus(ents,
                 placePendingOrder(ents, ords, now, contract.buyerEntityId,
                                   contract.resource, deliveryQty, contract.pricePerUnit,
                                   contract.sellerEntityId, i),
                 [cons EXCEPT ![i].unitsShipped = @ + deliveryQty,
                              ![i].nextDeliveryTick = @ + contract.deliveryInterval],
                 now, i + 1)
          ELSE dueWhateverStatus(
                 deductMoney(ents, contract.sellerEntityId,
                             deliveryQty * contract.penaltyPerUnit),
                 ords,
                 [cons EXCEPT ![i].unitsMissed = @ + deliveryQty,
                              ![i].nextDeliveryTick = @ + contract.deliveryInterval],
                 now, i + 1)

\* 8c: due deliveries of active contracts
RECURSIVE DueDeliveryLoop(_, _, _, _, _)
DueDeliveryLoop(ents, ords, cons, now, i) ==
  IF i > Len(cons) THEN [ents |-> ents, orders |-> ords, contracts |-> cons]
  ELSE LET contract == cons[i]
           deliveryQty == Min(contract.unitsPerDelivery,
                              contract.totalUnits - contract.unitsShipped
                                - contract.unitsMissed)
       IN IF contract.status # "active" \/ contract.nextDeliveryTick > now
          THEN DueDeliveryLoop(ents, ords, cons, now, i + 1)
          ELSE IF contract.sellerEntityId \notin DOMAIN ents
          THEN DueDeliveryLoop(ents, ords, [cons EXCEPT ![i].status = "cancelled"],
                               now, i + 1)
          ELSE IF deliveryQty <= 0
          THEN DueDeliveryLoop(ents, ords, [cons EXCEPT ![i].status = "completed"],
                               now, i + 1)
          ELSE IF getAvailable(ents[contract.sellerEntityId], contract.resource)
                    >= deliveryQty
          THEN DueDeliveryLoop(ents,
                 placePendingOrder(ents, ords, now, contract.buyerEntityId,
                                   contract.resource, deliveryQty, contract.pricePerUnit,
                                   contract.sellerEntityId, i),
                 [cons EXCEPT ![i].unitsShipped = @ + deliveryQty,
                              ![i].nextDeliveryTick = @ + contract.deliveryInterval],
                 now, i + 1)
          ELSE DueDeliveryLoop(
                 deductMoney(ents, contract.sellerEntityId,
                             deliveryQty * contract.penaltyPerUnit),
                 ords,
                 [cons EXCEPT ![i].unitsMissed = @ + deliveryQty,
                              ![i].nextDeliveryTick = @ + contract.deliveryInterval],
                 now, i + 1)

processContractManagement(ents, ords, cons, now, who) ==
  LET proposed == ProposalLoop(ents, cons, now, who, 1, cons)
      evaluated == evaluateMature(ents, proposed, now, who)
  IN DueDeliveryLoop(ents, ords, evaluated, now, 1)

(***************************************************************************)
(* Phase 9: order acceptance (fulfillmentAI.ts, price-aware).              *)
(***************************************************************************)
\* a comparator that serves the orders as they were placed
placedFirst(ents, sellerId, ords, a, b) == a <= b

\* the comparator of sortOrdersByPriority; the sort is stable, so equal
\* orders keep the order of their indices
priorityBefore(ents, sellerId, ords, a, b) ==
  LET time(x) == getTransportTime(Scenario[sellerId].locationId,
                                  Scenario[ords[x].buyerEntityId].locationId)
  IN IF ords[a].pricePerUnit # ords[b].pricePerUnit
     THEN ords[a].pricePerUnit > ords[b].pricePerUnit
     ELSE IF time(a) # time(b) THEN time(a) < time(b)
     ELSE IF ords[a].placedAtTick # ords[b].placedAtTick
     THEN ords[a].placedAtTick < ords[b].placedAtTick
     ELSE a <= b

RECURSIVE sortOrdersByPriority(_, _, _, _)
sortOrdersByPriority(ents, sellerId, orderIndices, ords) ==
  IF orderIndices = {} THEN <<>>
  ELSE LET first == CHOOSE a \in orderIndices :
                      \A b \in orderIndices : priorityBefore(ents, sellerId, ords, a, b)
       IN <<first>> \o sortOrdersByPriority(ents, sellerId, orderIndices \ {first}, ords)

\* a seller that accepts every request in full, whatever it holds
fulfillRequested(sellerId, order, availableStock, requestedQuantity) == requestedQuantity

\* a seller that looks at its stock and not at the price
fulfillFromStock(sellerId, order, availableStock, requestedQuantity) ==
  IF availableStock <= 0 THEN 0 ELSE Min(requestedQuantity, availableStock)

decideOrderFulfillment(sellerId, order, availableStock, requestedQuantity) ==
  LET production == getEntityType(sellerId).production
      makers == {k \in 1..Len(production) : producesResource(production[k], order.resource)}
      \* the loop breaks at the first process that outputs the resource
      firstMaker == CHOOSE k \in makers : \A j \in makers : k <= j
      minCost == IF makers = {} THEN [num |-> 0, den |-> 1]
                 ELSE getProductionCostPerUnit(production[firstMaker])
  IN IF availableStock <= 0 THEN 0
     ELSE IF order.pricePerUnit * minCost.den < minCost.num THEN 0
     ELSE Min(requestedQuantity, availableStock)

RECURSIVE AcceptLoop(_, _, _, _, _)
AcceptLoop(ents, ords, sellerId, sortedIndices, k) ==
  IF k > Len(sortedIndices) THEN [ents |-> ents, orders |-> ords]
  ELSE LET idx == sortedIndices[k]
           order == ords[idx]
           available == getAvailable(ents[sellerId], order.resource)
           fulfilledQuantity == decideOrderFulfillment(sellerId, order, available,
                                                       order.requestedQuantity)
       IN IF fulfilledQuantity <= 0
          THEN AcceptLoop(ents,
                          [ords EXCEPT ![idx].status = "declined",
                                       ![idx].fulfilledQuantity = 0],
                          sellerId, sortedIndices, k + 1)
          ELSE AcceptLoop(addCommitted(ents, sellerId, order.resource, fulfilledQuantity),
                          [ords EXCEPT ![idx].status = "accepted",
                                       ![idx].fulfilledQuantity = fulfilledQuantity,
                                       ![idx].wasAmended =
                                          fulfilledQuantity < order.requestedQuantity],
                          sellerId, sortedIndices, k + 1)

\* the loop over ordersBySeller; sellers holds the sellers still to serve
RECURSIVE SellerLoop(_, _, _, _)
SellerLoop(ents, ords, pendingIndices, sellers) ==
  IF sellers = {} THEN [ents |-> ents, orders |-> ords]
  ELSE LET firstIdx == CHOOSE i \in pendingIndices :
                         /\ ords[i].sellerEntityId \in sellers
                         /\ \A j \in pendingIndices :
                              ords[j].sellerEntityId \in sellers => i <= j
           sellerId == ords[firstIdx].sellerEntityId
           orderIndices == {i \in pendingIndices : ords[i].sellerEntityId = sellerId}
           declined == [i \in 1..Len(ords) |->
                          IF i \in orderIndices THEN [ords[i] EXCEPT !.status = "declined"]
                          ELSE ords[i]]
           served == AcceptLoop(ents, ords, sellerId,
                                sortOrdersByPriority(ents, sellerId, orderIndices, ords), 1)
       IN IF sellerId \notin DOMAIN ents
          THEN SellerLoop(ents, declined, pendingIndices, sellers \ {sellerId})
          ELSE SellerLoop(served.ents, served.orders, pendingIndices, sellers \ {sellerId})

processOrderAcceptance(ents, ords) ==
  LET pendingIndices == {i \in 1..Len(ords) : ords[i].status = "pending"}
  IN SellerLoop(ents, ords, pendingIndices,
                {ords[i].sellerEntityId : i \in pendingIndices})

(***************************************************************************)
(* Phase 10: departures.                                                   *)
(***************************************************************************)
\* a delivery that carries the requested instead of the fulfilled quantity
newDeliveryOfRequest(order, orderId) ==
  [orderId |-> orderId, fromEntityId |-> order.sellerEntityId,
   toEntityId |-> order.buyerEntityId, resource |-> order.resource,
   quantity |-> order.requestedQuantity,
   ticksRemaining |-> getTransportTime(Scenario[order.sellerEntityId].locationId,
                                       Scenario[order.buyerEntityId].locationId),
   pricePerUnit |-> order.pricePerUnit]

newDelivery(order, orderId) ==
  [orderId |-> orderId, fromEntityId |-> order.sellerEntityId,
   toEntityId |-> order.buyerEntityId, resource |-> order.resource,
   quantity |-> order.fulfilledQuantity,
   ticksRemaining |-> getTransportTime(Scenario[order.sellerEntityId].locationId,
                                       Scenario[order.buyerEntityId].locationId),
   pricePerUnit |-> order.pricePerUnit]

RECURSIVE DepartureLoop(_, _, _, _)
DepartureLoop(ents, ords, dels, i) ==
  IF i > Len(ords) THEN [ents |-> ents, orders |-> ords, deliveries |-> dels]
  ELSE LET order == ords[i] IN
    IF order.status # "accepted" THEN DepartureLoop(ents, ords, dels, i + 1)
    ELSE IF \/ order.sellerEntityId \notin DOMAIN ents
            \/ order.buyerEntityId \notin DOMAIN ents
            \/ order.fulfilledQuantity <= 0
    THEN DepartureLoop(ents, [ords EXCEPT ![i].status = "declined"], dels, i + 1)
    ELSE IF ~canRemoveFromInventory(ents, order.sellerEntityId, order.resource,
                                    order.fulfilledQuantity)
    THEN DepartureLoop(ents,
                       [ords EXCEPT ![i].status = "declined", ![i].fulfilledQuantity = 0],
                       dels, i + 1)
    ELSE DepartureLoop(
           removeCommitted(
             removeFromInventory(ents, order.sellerEntityId, order.resource,
                                 order.fulfilledQuantity),
             order.sellerEntityId, order.resource, order.fulfilledQuantity),
           [ords EXCEPT ![i].status = "in_transit"],
           Append(dels, newDelivery(order, i)), i + 1)

\* a departure phase that ships nothing
noDepartures(ents, ords, dels) == [ents |-> ents, orders |-> ords, deliveries |-> dels]

processDepartures(ents, ords, dels) == DepartureLoop(ents, ords, dels, 1)

(***************************************************************************)
(* Phase 11: contract status update.                                       *)
(***************************************************************************)
\* a status update without the cancellation check
updateCompletedOnly(cons) ==
  [i \in 1..Len(cons) |->
     IF cons[i].status = "active"
        /\ cons[i].unitsShipped + cons[i].unitsMissed >= cons[i].totalUnits
     THEN [cons[i] EXCEPT !.status = "completed"]
     ELSE cons[i]]

\* a status update that leaves every contract as it is
leaveStatuses(cons) == cons

updateContractStatuses(cons) ==
  [i \in 1..Len(cons) |->
     LET contract == cons[i]
         totalProcessed == contract.unitsShipped + contract.unitsMissed
     IN IF contract.status # "active" THEN contract
        ELSE IF totalProcessed >= contract.totalUnits
        THEN [contract EXCEPT !.status = "completed"]
        \* unitsMissed / totalUnits > cancellationThreshold
        ELSE IF contract.unitsMissed * contract.cancellationDen
                  > contract.cancellationNum * contract.totalUnits
        THEN [contract EXCEPT !.status = "cancelled"]
        ELSE contract]

(***************************************************************************)
(* Phase 7a: player actions.  An action is a PlayerOrder; the fields an    *)
(* action kind does not read hold "none" or 0.                             *)
(***************************************************************************)
\* targetId names a process or a resource; contractId is the targetId of
\* accept_contract and decline_contract
PlayerOrder(entityId, action, targetId, quantity, supplierId, lineId, contractId, proposal) ==
  [entityId |-> entityId, action |-> action, targetId |-> targetId,
   quantity |-> quantity, supplierId |-> supplierId, lineId |-> lineId,
   contractId |-> contractId, contractProposal |-> proposal]

NoProposal ==
  [supplierId |-> "none", resource |-> "none", unitsPerDelivery |-> 0,
   deliveryInterval |-> 0, totalUnits |-> 0, pricePerUnit |-> 0]

\* any entity of the game may act
anyoneActs(ents, who, entityId) == entityId \in DOMAIN ents

\* the action's entity exists and is the player-controlled one
actsFor(ents, who, entityId) == entityId \in DOMAIN ents /\ entityId = who

\* a volume taken as it was asked for
unclamped(process, quantity) == quantity

\* the volume a line of the process gets when the quantity is asked for
clampVolume(process, quantity) ==
  Max(process.minVolume, Min(process.maxVolume, quantity))

\* one iteration of the loop of processPlayerOrders on the state st
applyPlayerOrder(st, who, playerAction) ==
  LET entityId == playerAction.entityId
      process == ProductionProcesses[playerAction.targetId]
      wanted == IF playerAction.quantity = 0 THEN process.minVolume
                ELSE playerAction.quantity
      volume == clampVolume(process, wanted)
      clamp(line) ==
        [line EXCEPT !.volume = clampVolume(ProductionProcesses[line.processId],
                                            playerAction.quantity)]
  IN IF st.thrown \/ ~actsFor(st.ents, who, entityId) THEN st
     ELSE IF playerAction.action = "start_line"
     THEN IF playerAction.targetId \notin ProcessIds
          THEN [st EXCEPT !.thrown = TRUE]
          ELSE IF Len(linesOf(st.lines, entityId)) >= getEntityType(entityId).maxProcessLines
          THEN st
          ELSE [st EXCEPT !.lines = Append(@, newLine(st.idCounter + 1,
                                                      playerAction.targetId,
                                                      entityId, volume)),
                          !.idCounter = @ + 1]
     ELSE IF playerAction.action = "stop_line"
     THEN [st EXCEPT !.lines = SelectSeq(@, LAMBDA l : l.id # playerAction.lineId)]
     ELSE IF playerAction.action = "set_volume"
     THEN [st EXCEPT !.lines = [k \in 1..Len(st.lines) |->
                                  IF st.lines[k].id # playerAction.lineId
                                  THEN st.lines[k] ELSE clamp(st.lines[k])]]
     ELSE IF playerAction.action = "order"
     THEN IF Len(Scenario[entityId].suppliers[playerAction.targetId]) > 0
          THEN [st EXCEPT !.orders =
                  placePendingOrder(st.ents, @, st.tick, entityId, playerAction.targetId,
                                    playerAction.quantity,
                                    getBasePrice(playerAction.targetId),
                                    playerAction.supplierId, 0)]
          ELSE st
     ELSE IF playerAction.action = "propose_contract"
     THEN [st EXCEPT !.contracts =
             Append(@, newContract(st.tick, entityId, playerAction.contractProposal))]
     ELSE IF playerAction.action = "accept_contract"
     THEN [st EXCEPT !.contracts = [k \in 1..Len(st.contracts) |->
             IF k = playerAction.contractId /\ st.contracts[k].status = "proposed"
                /\ st.contracts[k].sellerEntityId = entityId
             THEN [st.contracts[k] EXCEPT
                     !.status = "active", !.acceptedAtTick = st.tick,
                     !.nextDeliveryTick = st.tick + st.contracts[k].deliveryInterval]
             ELSE st.contracts[k]]]
     ELSE IF playerAction.action = "decline_contract"
     THEN [st EXCEPT !.contracts = [k \in 1..Len(st.contracts) |->
             IF k = playerAction.contractId /\ st.contracts[k].status = "proposed"
                /\ st.contracts[k].sellerEntityId = entityId
             THEN [st.contracts[k] EXCEPT !.status = "cancelled"]
             ELSE st.contracts[k]]]
     ELSE st

RECURSIVE processPlayerOrders(_, _, _, _)
processPlayerOrders(st, who, playerActions, k) ==
  IF k > Len(playerActions) THEN st
  ELSE processPlayerOrders(applyPlayerOrder(st, who, playerActions[k]), who,
                           playerActions, k + 1)

VARIABLES
  tick,        \* GameState.tick
  entities,    \* GameState.entities: id -> [inventory, committed, money]
  player,      \* the entity with isPlayerControlled = true
  processLines,\* GameState.processLines
  orders,      \* GameState.orders (an order's id is its position)
  deliveries,  \* GameState.deliveries
  contracts,   \* GameState.contracts (a contract's id is its position)
  demandPhases,\* GameState.demandPhases
  sales,       \* GameState.sales
  idCounter,   \* the id source of nextId, as used for process lines
  pc,          \* the phase of runOneTick that runs next
  actionsLeft, \* player actions the exploration may still submit
  prodLog,     \* what each line did in the last production phase
  acceptedAt,  \* <<order id, tick>> for every order the acceptance phase accepted
  lineHistory, \* line id -> how often its startup inputs were deducted, and the
               \* volume at which its current cycle began
  query        \* the last routing query and its result

\* the state of the useTickEngine hook that queues the player's orders
VARIABLES
  pendingOrders,    \* the pendingOrders state of the last render
  pendingOrdersRef, \* pendingOrdersRef.current
  isPaused,         \* the isPaused state of the last render
  intervalRef,      \* TRUE while intervalRef.current holds a running interval
  updateQueue,      \* the state updates queued since the last render
  tickCalls,        \* the order lists passed to runOneTick, call by call
  removedOrders,    \* the orders clearOrders and removePendingOrder removed
  submitted,        \* the number of orders submitted; an order is its number
  hookCalls         \* the calls made to the hook's functions and timer

hookVars == <<pendingOrders, pendingOrdersRef, isPaused, intervalRef, updateQueue,
              tickCalls, removedOrders, submitted, hookCalls>>

\* useTickEngine before its first call: paused, nothing queued
HookStart ==
  /\ pendingOrders = <<>>
  /\ pendingOrdersRef = <<>>
  /\ isPaused = TRUE
  /\ intervalRef = FALSE
  /\ updateQueue = <<>>
  /\ tickCalls = <<>>
  /\ removedOrders = {}
  /\ submitted = 0
  /\ hookCalls = 0

vars == <<tick, entities, player, processLines, orders, deliveries, contracts,
          demandPhases, sales, idCounter, pc, actionsLeft, prodLog, acceptedAt, pathTable,
          lineHistory, config, query, hookVars>>

\* the history of the lines after a production phase with the log given
recordLines(history, log) ==
  [id \in DOMAIN history \cup {log[i].before.id : i \in 1..Len(log)} |->
     LET old == IF id \in DOMAIN history THEN history[id]
                ELSE [startups |-> 0, cycleVolume |-> 0]
         here == {i \in 1..Len(log) : log[i].before.id = id}
     IN IF here = {} THEN old
        ELSE LET entry == log[CHOOSE i \in here : TRUE]
             IN [startups |-> old.startups + (IF entry.startup THEN 1 ELSE 0),
                 cycleVolume |->
                   IF /\ entry.before.phase = "running" /\ entry.before.progress = 0
                      /\ (entry.cycle \/ entry.emitted
                            \/ entry.after.progress # entry.before.progress)
                   THEN entry.before.volume ELSE old.cycleVolume]]

(***************************************************************************)
(* The state after createInitialState(playerEntityId).                     *)
(***************************************************************************)
PlayerChoices == {"fab", "shop"}

\* the part of the configuration the routing reads
GameConfig == [locations |-> Locations, corridors |-> Corridors]

\* no routing query has been made
NoQuery == [kind |-> "none"]

ZeroInventory == [r \in Resources |-> 0]

\* the game state createInitialState returns, whoever plays
StartEntities ==
  [id \in EntityIds |->
     [inventory |-> Scenario[id].inventory, committed |-> ZeroInventory,
      money |-> Scenario[id].money]]

\* every part of the initial state but the entities
StartRest ==
  /\ tick = 0
  /\ processLines = <<>>
  /\ orders = <<>>
  /\ deliveries = <<>>
  /\ contracts = <<>>
  /\ demandPhases = [loc \in DemandLocations |-> [phaseIndex |-> 0, ticksInPhase |-> 0]]
  /\ sales = [id \in EntityIds |->
                [r \in Resources |-> [totalSold |-> 0, totalDemand |-> 0, lostSales |-> 0]]]
  /\ idCounter = 0
  /\ actionsLeft = MaxPlayerActions
  /\ prodLog = <<>>
  /\ acceptedAt = {}
  /\ lineHistory = <<>>

StartState == entities = StartEntities /\ StartRest

Init ==
  /\ StartState
  /\ player \in PlayerChoices
  /\ pc = "arrivals"
  /\ config = GameConfig
  /\ pathTable = buildPathTable(GameConfig)
  /\ query = NoQuery
  /\ HookStart

(***************************************************************************)
(* The actions the player may queue in the state st (the forms of the      *)
(* debug panel), over small sets of quantities.                            *)
(***************************************************************************)
StartVolumes == {0, 2, 3}

SetVolumes == {0, 1, 3}

OrderQuantities == {2, 12}

ProposalShapes ==
  {[unitsPerDelivery |-> 2, deliveryInterval |-> 1, totalUnits |-> 8],
   [unitsPerDelivery |-> 8, deliveryInterval |-> 1, totalUnits |-> 12]}

\* the prices a proposal may offer for a resource
ProposalPrices == [raw |-> {2, 4}, pow |-> {}, chip |-> {0, 2, 4}]

Buyable(entityId) == {r \in Resources : Len(Scenario[entityId].suppliers[r]) > 0}

\* a process id the configuration does not know
UnknownProcessIds == {"ghost"}

\* entity ids that are not the player's: an AI entity and an unknown id
OtherActors(who) == {CHOOSE id \in EntityIds : id # who} \cup {"nobody"}

\* the supplier an order form names: the first eligible one, if there is one
FormSupplier(who, r) ==
  IF Len(Scenario[who].suppliers[r]) > 0 THEN Scenario[who].suppliers[r][1] ELSE "none"

\* the sellers a proposal may name although the buyer's supplier list for the
\* resource does not hold them: the entities that start with stock of it
OutsideSellers(who, r) ==
  {id \in EntityIds \ {who} :
     /\ ~InSeq(id, Scenario[who].suppliers[r])
     /\ Scenario[id].inventory[r] > 0}

PlayerMenu(who, lines, cons) ==
  LET lineIds == {lines[k].id : k \in 1..Len(lines)}
  IN {PlayerOrder(who, "start_line", p, q, "none", 0, 0, NoProposal) :
        p \in ProcessIds, q \in StartVolumes}
     \cup {PlayerOrder(who, "start_line", p, 0, "none", 0, 0, NoProposal) :
             p \in UnknownProcessIds}
     \cup {PlayerOrder(e, "start_line", "dig", 0, "none", 0, 0, NoProposal) :
             e \in OtherActors(who)}
     \cup {PlayerOrder(who, "stop_line", "none", 0, "none", id, 0, NoProposal) :
             id \in lineIds}
     \cup {PlayerOrder(who, "set_volume", "none", q, "none", id, 0, NoProposal) :
             id \in lineIds, q \in SetVolumes}
     \cup {PlayerOrder(who, "order", r, q, FormSupplier(who, r), 0, 0, NoProposal) :
             r \in Buyable(who), q \in OrderQuantities}
     \cup {PlayerOrder(who, "order", r, 2, "none", 0, 0, NoProposal) :
             r \in Resources \ Buyable(who)}
     \cup UNION {{PlayerOrder(who, "propose_contract", "none", 0, "none", 0, 0,
                              [supplierId |-> Scenario[who].suppliers[r][1],
                               resource |-> r,
                               unitsPerDelivery |-> sh.unitsPerDelivery,
                               deliveryInterval |-> sh.deliveryInterval,
                               totalUnits |-> sh.totalUnits,
                               pricePerUnit |-> price]) :
                    sh \in ProposalShapes, price \in ProposalPrices[r]} :
                  r \in Buyable(who)}
     \cup UNION {{PlayerOrder(who, "propose_contract", "none", 0, "none", 0, 0,
                              [supplierId |-> id,
                               resource |-> r,
                               unitsPerDelivery |-> 2,
                               deliveryInterval |-> 1,
                               totalUnits |-> 8,
                               pricePerUnit |-> getBasePrice(r)]) :
                    id \in OutsideSellers(who, r)} :
                  r \in Resources}
     \cup {PlayerOrder(who, a, "none", 0, "none", 0, c, NoProposal) :
             a \in {"accept_contract", "decline_contract"},
             c \in 1..(Len(cons) + 1)}

\* the lists one tick may carry: nothing, one action, or two contract proposals
\* for one resource
ActionLists(menu, budget) ==
  {<<>>}
  \cup (IF budget >= 1 THEN {<<a>> : a \in menu} ELSE {})
  \cup (IF budget >= 2
        THEN {l \in {<<a, b>> : a, b \in {m \in menu : m.action = "propose_contract"}} :
                l[1].contractProposal.resource = l[2].contractProposal.resource}
        ELSE {})

(***************************************************************************)
(* runOneTick, one action per phase.                                       *)
(***************************************************************************)
Arrivals ==
  /\ pc = "arrivals"
  /\ tick < MaxTick
  /\ \E r \in {processArrivals(deliveries, entities, orders, tick + 1)} :
       /\ entities' = r.ents
       /\ orders' = r.orders
       /\ deliveries' = r.deliveries
  /\ tick' = tick + 1
  /\ pc' = "demand"
  /\ UNCHANGED <<hookVars, config, query, lineHistory, pathTable, acceptedAt, player, processLines, contracts, demandPhases, sales, idCounter,
                 actionsLeft, prodLog>>

DemandPhases ==
  /\ pc = "demand"
  /\ demandPhases' = advanceDemandPhases(demandPhases)
  /\ pc' = "production"
  /\ UNCHANGED <<hookVars, config, query, lineHistory, pathTable, acceptedAt, tick, entities, player, processLines, orders, deliveries, contracts,
                 sales, idCounter, actionsLeft, prodLog>>

Production ==
  /\ pc = "production"
  /\ \E r \in {processProductionLines(processLines, entities)} :
       /\ entities' = r.ents
       /\ processLines' = r.lines
       /\ prodLog' = r.log
       /\ lineHistory' = recordLines(lineHistory, r.log)
  /\ pc' = "retail"
  /\ UNCHANGED <<hookVars, config, query, pathTable, acceptedAt, tick, player, orders, deliveries, contracts, demandPhases, sales,
                 idCounter, actionsLeft>>

RetailSelling ==
  /\ pc = "retail"
  /\ \E demands \in [1..Len(RetailSlots) -> 0..8] :
       /\ \A j \in 1..Len(RetailSlots) :
            demands[j] \in getCurrentDemand(demandPhases,
                                            Scenario[RetailSlots[j].entityId].locationId,
                                            RetailSlots[j].resource)
       /\ LET r == processRetailSelling(entities, sales, demands)
          IN /\ entities' = r.ents
             /\ sales' = r.sales
  /\ pc' = "storage"
  /\ UNCHANGED <<hookVars, config, query, lineHistory, pathTable, acceptedAt, tick, player, processLines, orders, deliveries, contracts,
                 demandPhases, idCounter, actionsLeft, prodLog>>

StorageCosts ==
  /\ pc = "storage"
  /\ entities' = processStorageCosts(entities)
  /\ pc' = "player"
  /\ UNCHANGED <<hookVars, config, query, lineHistory, pathTable, acceptedAt, tick, player, processLines, orders, deliveries, contracts,
                 demandPhases, sales, idCounter, actionsLeft, prodLog>>

\* the state processPlayerOrders starts from; thrown: an Error left the loop
PlayerState ==
  [ents |-> entities, lines |-> processLines, orders |-> orders,
   contracts |-> contracts, idCounter |-> idCounter, tick |-> tick, thrown |-> FALSE]

PlayerOrders ==
  /\ pc = "player"
  /\ \E playerActions \in ActionLists(PlayerMenu(player, processLines, contracts),
                                      actionsLeft) :
       LET r == IF Len(playerActions) > 0
                THEN processPlayerOrders(PlayerState, player, playerActions, 1)
                ELSE PlayerState
       IN /\ processLines' = IF r.thrown THEN processLines ELSE r.lines
          /\ orders' = IF r.thrown THEN orders ELSE r.orders
          /\ contracts' = IF r.thrown THEN contracts ELSE r.contracts
          /\ idCounter' = IF r.thrown THEN idCounter ELSE r.idCounter
          /\ actionsLeft' = actionsLeft - Len(playerActions)
          /\ pc' = IF r.thrown THEN "thrown" ELSE "ai"
  /\ UNCHANGED <<hookVars, config, query, lineHistory, pathTable, acceptedAt, tick, entities, player, deliveries, demandPhases, sales, prodLog>>

AIDecisions ==
  /\ pc = "ai"
  /\ \E r \in {processAIDecisions(entities, contracts, tick, player, processLines,
                                 orders, idCounter)} :
       /\ processLines' = r.lines
       /\ orders' = r.orders
       /\ idCounter' = r.idCounter
  /\ pc' = "contracts"
  /\ UNCHANGED <<hookVars, config, query, lineHistory, pathTable, acceptedAt, tick, entities, player, deliveries, contracts, demandPhases, sales,
                 actionsLeft, prodLog>>

ContractManagement ==
  /\ pc = "contracts"
  /\ \E r \in {processContractManagement(entities, orders, contracts, tick, player)} :
       /\ entities' = r.ents
       /\ orders' = r.orders
       /\ contracts' = r.contracts
  /\ pc' = "accept"
  /\ UNCHANGED <<hookVars, config, query, lineHistory, pathTable, acceptedAt, tick, player, processLines, deliveries, demandPhases, sales,
                 idCounter, actionsLeft, prodLog>>

OrderAcceptance ==
  /\ pc = "accept"
  /\ \E r \in {processOrderAcceptance(entities, orders)} :
       /\ entities' = r.ents
       /\ orders' = r.orders
       /\ acceptedAt' = acceptedAt \cup
             {<<i, tick>> : i \in {j \in 1..Len(orders) :
                                     /\ orders[j].status = "pending"
                                     /\ r.orders[j].status = "accepted"}}
  /\ pc' = "depart"
  /\ UNCHANGED <<hookVars, config, query, lineHistory, pathTable, tick, player, processLines, deliveries, contracts, demandPhases,
                 sales, idCounter, actionsLeft, prodLog>>

Departures ==
  /\ pc = "depart"
  /\ \E r \in {processDepartures(entities, orders, deliveries)} :
       /\ entities' = r.ents
       /\ orders' = r.orders
       /\ deliveries' = r.deliveries
  /\ pc' = "status"
  /\ UNCHANGED <<hookVars, config, query, lineHistory, pathTable, acceptedAt, tick, player, processLines, contracts, demandPhases, sales,
                 idCounter, actionsLeft, prodLog>>

ContractStatus ==
  /\ pc = "status"
  /\ contracts' = updateContractStatuses(contracts)
  /\ pc' = "arrivals"
  /\ UNCHANGED <<hookVars, config, query, lineHistory, pathTable, acceptedAt, tick, entities, player, processLines, orders, deliveries,
                 demandPhases, sales, idCounter, actionsLeft, prodLog>>

Next ==
  \/ Arrivals
  \/ DemandPhases
  \/ Production
  \/ RetailSelling
  \/ StorageCosts
  \/ PlayerOrders
  \/ AIDecisions
  \/ ContractManagement
  \/ OrderAcceptance
  \/ Departures
  \/ ContractStatus

Spec == Init /\ [][Next]_vars

\* no phase can follow: the last tick is over, or an error has ended the run
RunOver == (pc = "arrivals" /\ tick >= MaxTick) \/ pc = "thrown"

\* the game when ticks keep being run: no phase is put off for ever.  Next is
\* enabled exactly when the run is not over, so this is weak fairness of Next.
SpecLive == Spec /\ (<>[]RunOver \/ []<><<Next>>_vars)

(***************************************************************************)
(* Routing queries on a freshly loaded configuration: every connected      *)
(* corridor graph over RoutePairs on three or four locations with costs up *)
(* to MaxCorridorCost, listed in either order.                             *)
(***************************************************************************)
MaxCorridorCost == 3

RouteLocationSets == {{"A", "B", "C"}, {"A", "B", "C", "D"}}

RoutePairs ==
  <<<<"A", "B">>, <<"B", "C">>, <<"A", "C">>, <<"B", "D">>, <<"C", "D">>>>

RouteLocalTicks == [A |-> 1, B |-> 2, C |-> 4, D |-> 8]

\* the corridors with a cost above 0, in the order of RoutePairs
RECURSIVE corridorsOf(_, _)
corridorsOf(costs, k) ==
  IF k > Len(RoutePairs) THEN <<>>
  ELSE (IF costs[k] = 0 THEN <<>>
        ELSE <<[locationA |-> RoutePairs[k][1], locationB |-> RoutePairs[k][2],
                cost |-> costs[k]]>>)
       \o corridorsOf(costs, k + 1)

\* the same corridors listed last to first, each from its other end
turnedAround(corridors) ==
  [k \in 1..Len(corridors) |->
     [locationA |-> corridors[Len(corridors) + 1 - k].locationB,
      locationB |-> corridors[Len(corridors) + 1 - k].locationA,
      cost |-> corridors[Len(corridors) + 1 - k].cost]]

\* the locations a set of locations reaches over the corridors
RECURSIVE reachedFrom(_, _)
reachedFrom(corridors, seen) ==
  LET more == {corridors[k].locationB : k \in {j \in 1..Len(corridors) :
                                                 corridors[j].locationA \in seen}}
              \cup {corridors[k].locationA : k \in {j \in 1..Len(corridors) :
                                                      corridors[j].locationB \in seen}}
  IN IF more \subseteq seen THEN seen ELSE reachedFrom(corridors, seen \cup more)

\* validateConfig: corridors join known, distinct locations, and every location
\* is reachable
validCorridors(locs, corridors) ==
  /\ \A k \in 1..Len(corridors) :
        corridors[k].locationA \in locs /\ corridors[k].locationB \in locs
  /\ reachedFrom(corridors, {"A"}) = locs

\* every listing of corridors the costs chosen for RoutePairs give
RouteCorridorLists ==
  UNION {{corridorsOf(costs, 1), turnedAround(corridorsOf(costs, 1))} :
           costs \in [1..Len(RoutePairs) -> 0..MaxCorridorCost]}

RouteConfigsOn(locs) ==
  {[locations |-> [l \in locs |-> [localTransportTicks |-> RouteLocalTicks[l]]],
    corridors |-> corridors] :
     corridors \in {c \in RouteCorridorLists : validCorridors(locs, c)}}

RouteConfigs == UNION {RouteConfigsOn(locs) : locs \in RouteLocationSets}

InitRoute ==
  /\ StartState
  /\ player = "fab"
  /\ pc = "routing"
  /\ config \in RouteConfigs
  /\ pathTable = <<>>
  /\ query = NoQuery
  /\ HookStart

\* getPath builds the table when it is first called
pathTableAfter(from, to) ==
  IF from # to /\ DOMAIN pathTable = {} THEN buildPathTable(config) ELSE pathTable

\* getTransportTime asked first on the loaded configuration
TransportTimeQuery ==
  /\ pc = "routing"
  /\ query.kind = "none"
  /\ \E from \in DOMAIN config.locations, to \in DOMAIN config.locations :
       /\ pathTable' = pathTableAfter(from, to)
       /\ config' = config
       /\ query' = [kind |-> "time", from |-> from, to |-> to,
                    time |-> getTransportTime(from, to)',
                    totalTime |-> -1, route |-> <<>>]
  /\ UNCHANGED <<tick, entities, player, processLines, orders, deliveries, contracts,
                 demandPhases, sales, idCounter, pc, actionsLeft, prodLog, acceptedAt,
                 lineHistory, hookVars>>

\* getTransportRoute asked first, or for the pair whose time was just asked
TransportRouteQuery ==
  /\ pc = "routing"
  /\ query.kind \in {"none", "time"}
  /\ \E from \in DOMAIN config.locations, to \in DOMAIN config.locations :
       /\ query.kind = "time" => from = query.from /\ to = query.to
       /\ pathTable' = pathTableAfter(from, to)
       /\ config' = config
       /\ query' = [kind |-> IF query.kind = "time" THEN "time and route" ELSE "route",
                    from |-> from, to |-> to,
                    time |-> IF query.kind = "time" THEN query.time ELSE -1,
                    totalTime |-> getTransportRoute(from, to).totalTime',
                    route |-> getTransportRoute(from, to).route']
  /\ UNCHANGED <<tick, entities, player, processLines, orders, deliveries, contracts,
                 demandPhases, sales, idCounter, pc, actionsLeft, prodLog, acceptedAt,
                 lineHistory, hookVars>>

NextRoute ==
  \/ TransportTimeQuery
  \/ TransportRouteQuery

SpecRoute == InitRoute /\ [][NextRoute]_vars

(***************************************************************************)
(* The game on a scenario whose mine starts with a stock of its output     *)
(* near MINE_MAX_STOCK: the same configuration and the same tick as Spec.  *)
(***************************************************************************)
MineStocks == {MINE_MAX_STOCK - 2, MINE_MAX_STOCK}

InitStocked ==
  /\ \E s \in MineStocks :
       entities = [StartEntities EXCEPT !["mine"].inventory["raw"] = s]
  /\ StartRest
  /\ player \in PlayerChoices
  /\ pc = "arrivals"
  /\ config = GameConfig
  /\ pathTable = buildPathTable(GameConfig)
  /\ query = NoQuery
  /\ HookStart

SpecStocked == InitStocked /\ [][Next]_vars

(***************************************************************************)
(* The production phase on its own: fab owns one or two lines that were    *)
(* just created, holds little or nothing, and stock may arrive before the  *)
(* production phase of a tick.                                             *)
(***************************************************************************)
StartupProcesses == {"make", "cast"}

StartupLines ==
  {<<newLine(1, p, "fab", 1)>> : p \in StartupProcesses}
  \cup {<<newLine(1, p, "fab", 1), newLine(2, q, "fab", 1)>> :
          p \in StartupProcesses, q \in StartupProcesses}

StartupStocks == [raw : {0, 2}, pow : {0, 1}]

\* what arrives for fab in a tick: nothing, or units of one resource
StartupArrivals ==
  {[resource |-> "raw", quantity |-> 0], [resource |-> "raw", quantity |-> 2],
   [resource |-> "pow", quantity |-> 1]}

InitStartup ==
  /\ tick = 0
  /\ \E stock \in StartupStocks :
       entities = [StartEntities EXCEPT
                     !["fab"].inventory = [raw |-> stock.raw, pow |-> stock.pow, chip |-> 0]]
  /\ processLines \in StartupLines
  /\ idCounter = Len(processLines)
  /\ orders = <<>>
  /\ deliveries = <<>>
  /\ contracts = <<>>
  /\ demandPhases = [loc \in DemandLocations |-> [phaseIndex |-> 0, ticksInPhase |-> 0]]
  /\ sales = [id \in EntityIds |->
                [r \in Resources |-> [totalSold |-> 0, totalDemand |-> 0, lostSales |-> 0]]]
  /\ actionsLeft = 0
  /\ prodLog = <<>>
  /\ acceptedAt = {}
  /\ lineHistory = <<>>
  /\ player = "shop"
  /\ pc = "startup"
  /\ config = GameConfig
  /\ pathTable = buildPathTable(GameConfig)
  /\ query = NoQuery
  /\ HookStart

\* one tick: the arriving stock is added, then the lines are processed
StartupTick ==
  /\ pc = "startup"
  /\ tick < MaxTick
  /\ \E arrival \in StartupArrivals :
       LET r == processProductionLines(
                  processLines,
                  addToInventory(entities, "fab", arrival.resource, arrival.quantity))
       IN /\ entities' = r.ents
          /\ processLines' = r.lines
          /\ prodLog' = r.log
          /\ lineHistory' = recordLines(lineHistory, r.log)
  /\ tick' = tick + 1
  /\ UNCHANGED <<hookVars, config, query, pathTable, acceptedAt, player, orders, deliveries,
                 contracts, demandPhases, sales, idCounter, actionsLeft, pc>>

NextStartup == StartupTick

SpecStartup == InitStartup /\ [][NextStartup]_vars

(***************************************************************************)
(* Properties.                                                             *)
(***************************************************************************)

\* C1: commitment invariant.  For every entity and every resource, after
\* every phase of every tick, 0 <= committed[r] <= inventory[r].
CommitmentInvariant ==
  \A id \in EntityIds : \A r \in Resources :
     /\ 0 <= entities[id].committed[r]
     /\ entities[id].committed[r] <= entities[id].inventory[r]

\* the acceptance phase has committed the whole stock of some seller
CommitmentWitness ==
  /\ pc = "depart"
  /\ \E id \in EntityIds : \E r \in Resources :
        /\ entities[id].committed[r] > 0
        /\ entities[id].committed[r] = entities[id].inventory[r]
  /\ \E i \in 1..Len(orders) : orders[i].status = "accepted" /\ orders[i].wasAmended

\* units of r held by entities or travelling in deliveries
RECURSIVE DeliveryUnits(_, _, _, _, _)
DeliveryUnits(dels, from, to, r, i) ==
  IF i > Len(dels) THEN 0
  ELSE (IF /\ dels[i].resource = r
           /\ from \in {"any", dels[i].fromEntityId}
           /\ to \in {"any", dels[i].toEntityId}
        THEN dels[i].quantity ELSE 0)
       + DeliveryUnits(dels, from, to, r, i + 1)

RECURSIVE HeldUnits(_, _, _)
HeldUnits(ents, r, k) ==
  IF k > Len(EntityOrder) THEN 0
  ELSE ents[EntityOrder[k]].inventory[r] + HeldUnits(ents, r, k + 1)

Mass(ents, dels, r) == HeldUnits(ents, r, 1) + DeliveryUnits(dels, "any", "any", r, 1)

\* units of r in a list of inputs or outputs, times factor
RECURSIVE ListedUnits(_, _, _, _)
ListedUnits(items, r, factor, k) ==
  IF k > Len(items) THEN 0
  ELSE (IF items[k].resource = r THEN items[k].quantity * factor ELSE 0)
       + ListedUnits(items, r, factor, k + 1)

\* units of r emitted minus units of r consumed by the lines of a production phase
RECURSIVE ProducedNet(_, _, _)
ProducedNet(log, r, i) ==
  IF i > Len(log) THEN 0
  ELSE LET process == ProductionProcesses[log[i].before.processId]
           volume == log[i].before.volume
       IN (IF log[i].emitted THEN ListedUnits(process.outputs, r, volume, 1) ELSE 0)
          - (IF log[i].startup THEN ListedUnits(process.startupInputs, r, 1, 1) ELSE 0)
          - (IF log[i].cycle THEN ListedUnits(process.cycleInputs, r, volume, 1) ELSE 0)
          - (IF log[i].tickIn THEN ListedUnits(process.tickInputs, r, volume, 1) ELSE 0)
          + ProducedNet(log, r, i + 1)

RECURSIVE SoldUnits(_, _, _)
SoldUnits(sls, r, k) ==
  IF k > Len(EntityOrder) THEN 0
  ELSE sls[EntityOrder[k]][r].totalSold + SoldUnits(sls, r, k + 1)

\* the deliveries a departure phase appended, and those an arrival phase completed
Departed == SubSeq(deliveries', Len(deliveries) + 1, Len(deliveries'))

Arrived == SelectSeq(deliveries, LAMBDA d : d.ticksRemaining <= 0)

\* C2: mass conservation.  For every resource, inventories plus in-flight
\* delivery quantities change in a phase only by what production emitted and
\* consumed and by what retail sold; a departure removes exactly the new
\* delivery's quantity from the seller and an arrival adds exactly the
\* completed delivery's quantity to the buyer.
MassConservation ==
  [][\A r \in Resources :
       /\ Mass(entities', deliveries', r)
            = Mass(entities, deliveries, r)
              + (IF pc = "production" THEN ProducedNet(prodLog', r, 1) ELSE 0)
              - (IF pc = "retail" THEN SoldUnits(sales', r, 1) - SoldUnits(sales, r, 1)
                 ELSE 0)
       /\ pc = "depart" =>
            \A id \in EntityIds :
               entities'[id].inventory[r]
                 = entities[id].inventory[r] - DeliveryUnits(Departed, id, "any", r, 1)
       /\ pc = "arrivals" =>
            \A id \in EntityIds :
               entities'[id].inventory[r]
                 = entities[id].inventory[r] + DeliveryUnits(Arrived, "any", id, r, 1)
    ]_vars

\* a tick in which a line emitted, the shop sold and a delivery is under way
MassWitness ==
  /\ pc = "status"
  /\ \E i \in 1..Len(prodLog) : prodLog[i].emitted /\ prodLog[i].cycle
  /\ \E id \in EntityIds : \E r \in Resources : sales[id][r].totalSold > 0
  /\ \E i \in 1..Len(deliveries) : deliveries[i].ticksRemaining > 0

\* the places of the statuses on the path pending -> accepted -> in_transit -> delivered
StatusRank(status) ==
  CASE status = "pending" -> 0
    [] status = "accepted" -> 1
    [] status = "in_transit" -> 2
    [] status = "delivered" -> 3
    [] OTHER -> 4

\* C3: order monotonicity.  In every step every order keeps its status, moves
\* forward on the path pending -> accepted -> in_transit -> delivered, or goes
\* from pending to declined; no order goes from accepted to declined, delivered
\* and declined orders never change again, and no order is removed.
OrderMonotonicity ==
  [][/\ Len(orders') >= Len(orders)
     /\ \A i \in 1..Len(orders) :
          LET old == orders[i].status
              new == orders'[i].status
          IN \/ new = old
             \/ old = "pending" /\ new = "declined"
             \/ /\ old \notin {"declined", "delivered"}
                /\ new # "declined"
                /\ StatusRank(old) < StatusRank(new)
    ]_vars

\* one order has run the whole path and another was declined
OrderMonotonicityWitness ==
  /\ \E i \in 1..Len(orders) : orders[i].status = "delivered"
  /\ \E i \in 1..Len(orders) : orders[i].status = "declined"
  /\ \E i \in 1..Len(orders) : orders[i].status = "in_transit"

\* the log entries of running lines that did not advance
Stalled(entry) ==
  /\ entry.before.phase = "running"
  /\ entry.after.progress = entry.before.progress
  /\ ~entry.emitted

\* C4: no partial consumption on a stall.  A running line that does not
\* advance its progress in a tick removes nothing from its owner's inventory
\* in that tick, also at progress 0 with the cycle inputs available and a tick
\* input missing.
NoPartialConsumptionOnStall ==
  \A i \in 1..Len(prodLog) :
     Stalled(prodLog[i]) => prodLog[i].inv1 = prodLog[i].inv0

\* a log entry of a running line that began the tick at progress 0
AtCycleStart(entry) == entry.before.phase = "running" /\ entry.before.progress = 0

\* the owner lacks some cycle input at quantity x volume when the line's turn comes
LacksCycleInput(entry) ==
  LET process == ProductionProcesses[entry.before.processId]
  IN \E k \in 1..Len(process.cycleInputs) :
        entry.inv0[process.cycleInputs[k].resource]
          < process.cycleInputs[k].quantity * entry.before.volume

\* all cycle and tick inputs are available together when the line's turn comes
AllInputsAvailable(entry) ==
  LET process == ProductionProcesses[entry.before.processId]
  IN \A r \in Resources :
        entry.inv0[r] >= ListedUnits(process.cycleInputs, r, entry.before.volume, 1)
                           + ListedUnits(process.tickInputs, r, entry.before.volume, 1)

\* the line of the entry consumed its cycle and tick inputs exactly once, and
\* emitted its outputs exactly when told
ConsumedOnce(entry, emits) ==
  LET process == ProductionProcesses[entry.before.processId]
  IN \A r \in Resources :
        entry.inv1[r]
          = entry.inv0[r]
            - ListedUnits(process.cycleInputs, r, entry.before.volume, 1)
            - ListedUnits(process.tickInputs, r, entry.before.volume, 1)
            + (IF emits THEN ListedUnits(process.outputs, r, entry.before.volume, 1)
               ELSE 0)

\* C5 as stated: a running line at progress 0 whose owner lacks a cycle input
\* stays at progress 0 and leaves the inventory alone; in a tick in which all
\* cycle and tick inputs are available it consumes them once and its progress
\* advances by exactly 1.
StarvationThenAdvanceByOne ==
  \A i \in 1..Len(prodLog) :
     LET entry == prodLog[i]
     IN AtCycleStart(entry) =>
          /\ LacksCycleInput(entry) =>
               entry.after = entry.before /\ entry.inv1 = entry.inv0
          /\ AllInputsAvailable(entry) =>
               /\ ConsumedOnce(entry, FALSE)
               /\ entry.after.progress = entry.before.progress + 1

\* C5, amended: a running line at progress 0 whose owner lacks a cycle input
\* stays at progress 0 and leaves the inventory alone; in a tick in which all
\* cycle and tick inputs are available it consumes them once and its progress
\* becomes 1 when cycleTicks > 1, while with cycleTicks = 1 the cycle completes
\* in that tick: the outputs are emitted and the progress is 0 again.
StarvationIdempotence ==
  \A i \in 1..Len(prodLog) :
     LET entry == prodLog[i]
         process == ProductionProcesses[entry.before.processId]
     IN AtCycleStart(entry) =>
          /\ LacksCycleInput(entry) =>
               entry.after = entry.before /\ entry.inv1 = entry.inv0
          /\ AllInputsAvailable(entry) =>
               /\ ConsumedOnce(entry, process.cycleTicks = 1)
               /\ entry.after.progress = (IF process.cycleTicks = 1 THEN 0 ELSE 1)
               /\ entry.after = [entry.before EXCEPT !.progress = entry.after.progress]

\* in one production phase a line starved at progress 0, a line with
\* cycleTicks = 1 completed its cycle, and a longer line went to progress 1
StarvationWitness ==
  /\ \E i \in 1..Len(prodLog) :
        AtCycleStart(prodLog[i]) /\ LacksCycleInput(prodLog[i])
  /\ \E i \in 1..Len(prodLog) :
        /\ AtCycleStart(prodLog[i]) /\ AllInputsAvailable(prodLog[i])
        /\ ProductionProcesses[prodLog[i].before.processId].cycleTicks = 1
        /\ Len(ProductionProcesses[prodLog[i].before.processId].cycleInputs) > 0
  /\ \E i \in 1..Len(prodLog) :
        /\ AtCycleStart(prodLog[i]) /\ AllInputsAvailable(prodLog[i])
        /\ ProductionProcesses[prodLog[i].before.processId].cycleTicks > 1

\* the orders that become in_transit, and those that become delivered, in a step
Departing == {i \in 1..Len(orders) :
                orders[i].status # "in_transit" /\ orders'[i].status = "in_transit"}

Arriving == {i \in 1..Len(orders) :
               orders[i].status # "delivered" /\ orders'[i].status = "delivered"}

\* C6 as stated: an order accepted in the acceptance phase of tick t is not
\* turned into a delivery (status in_transit) during tick t; it departs in
\* tick t+1 at the earliest.
DepartureAfterAcceptanceTick ==
  [][\A i \in Departing : \A a \in acceptedAt : a[1] = i => tick' > a[2]]_vars

\* C6, amended: an order accepted in the acceptance phase of tick t is turned
\* into a delivery (status in_transit) by the departure phase of the same tick
\* t, which follows the acceptance phase; no accepted order is left for a later
\* tick, and the order arrives in tick t+1 at the earliest.
DepartureInAcceptanceTick ==
  [][/\ \A i \in Departing :
          /\ pc = "depart"
          /\ <<i, tick>> \in acceptedAt
          /\ \E k \in 1..Len(Departed) : Departed[k].orderId = i
     /\ \A i \in 1..Len(orders) :
          pc = "depart" /\ orders[i].status = "accepted" => i \in Departing
     /\ \A i \in 1..Len(orders) :
          orders[i].status = "accepted" => pc = "depart" /\ <<i, tick>> \in acceptedAt
     /\ \A i \in Arriving : \E a \in acceptedAt : a[1] = i /\ tick' > a[2]
    ]_vars

\* after the departure phase an order accepted in this tick is under way, and
\* an order accepted one tick earlier has arrived
DepartureWitness ==
  /\ pc = "status"
  /\ \E i \in 1..Len(orders) :
        orders[i].status = "in_transit" /\ <<i, tick>> \in acceptedAt
  /\ \E i \in 1..Len(orders) :
        /\ orders[i].status = "delivered"
        /\ <<i, orders[i].deliveredAtTick - 1>> \in acceptedAt

\* C7: contract deliveries are auto-approved.  Every order the due-delivery
\* step injected, having found the seller's available stock sufficient and
\* counted the delivery as shipped, is accepted for its full quantity in the
\* acceptance phase of that tick, whatever other orders are pending for the
\* same seller and resource and whatever the seller's cost floor is.
ContractDeliveriesAccepted ==
  [][pc = "accept" =>
       \A i \in 1..Len(orders) :
          orders[i].status = "pending" /\ orders[i].contractId > 0 =>
            /\ orders'[i].status = "accepted"
            /\ orders'[i].fulfilledQuantity = orders[i].requestedQuantity
    ]_vars

\* what is due from a contract at its next delivery
DueQuantity(contract) ==
  Min(contract.unitsPerDelivery,
      contract.totalUnits - contract.unitsShipped - contract.unitsMissed)

\* an active contract that is due while its seller's available stock is short
MissesDelivery(contract) ==
  /\ contract.status = "active"
  /\ contract.nextDeliveryTick <= tick
  /\ DueQuantity(contract) > 0
  /\ getAvailable(entities[contract.sellerEntityId], contract.resource)
       < DueQuantity(contract)

RECURSIVE PenaltiesOf(_, _)
PenaltiesOf(sellerId, i) ==
  IF i > Len(contracts) THEN 0
  ELSE (IF contracts[i].sellerEntityId = sellerId /\ MissesDelivery(contracts[i])
        THEN DueQuantity(contracts[i]) * contracts[i].penaltyPerUnit ELSE 0)
       + PenaltiesOf(sellerId, i + 1)

\* C8: missed contract delivery.  For an active contract that is due and whose
\* seller's available stock is less than deliveryQty = min(unitsPerDelivery,
\* totalUnits - unitsShipped - unitsMissed) > 0, the contract phase deducts
\* exactly deliveryQty x penaltyPerUnit from the seller's money, adds
\* deliveryQty to unitsMissed, leaves unitsShipped unchanged, creates no order
\* for the contract and advances nextDeliveryTick by exactly deliveryInterval.
MissedDeliveryPenalty ==
  [][pc = "contracts" =>
       /\ \A i \in 1..Len(contracts) :
            MissesDelivery(contracts[i]) =>
              /\ contracts'[i].unitsMissed
                   = contracts[i].unitsMissed + DueQuantity(contracts[i])
              /\ contracts'[i].unitsShipped = contracts[i].unitsShipped
              /\ contracts'[i].nextDeliveryTick
                   = contracts[i].nextDeliveryTick + contracts[i].deliveryInterval
              /\ \A k \in (Len(orders) + 1)..Len(orders') : orders'[k].contractId # i
       /\ \A id \in EntityIds :
            entities'[id].money = entities[id].money - PenaltiesOf(id, 1)
    ]_vars

\* a contract phase has just recorded a missed delivery with a penalty to pay
MissedDeliveryWitness ==
  /\ pc = "accept"
  /\ \E i \in 1..Len(contracts) :
        /\ contracts[i].unitsMissed > 0
        /\ contracts[i].penaltyPerUnit > 0
        /\ contracts[i].nextDeliveryTick = tick + contracts[i].deliveryInterval
        /\ \A k \in 1..Len(orders) :
              orders[k].contractId = i => orders[k].placedAtTick < tick

\* unitsMissed / totalUnits > cancellationThreshold
OverThreshold(contract) ==
  contract.unitsMissed * contract.cancellationDen
    > contract.cancellationNum * contract.totalUnits

Processed(contract) == contract.unitsShipped + contract.unitsMissed

Evaluated == {i \in 1..Len(contracts) :
                contracts[i].status = "proposed" /\ contracts'[i].status # "proposed"}

\* C11: minimum proposal age.  No contract changes from proposed to active
\* or to cancelled (declined) in a tick t with t - proposedAtTick <
\* contractWaitTicks, whether its seller is AI-controlled (automatic
\* evaluation) or player-controlled (accept_contract / decline_contract).
MinimumProposalAge ==
  [][\A i \in Evaluated :
       tick - contracts[i].proposedAtTick >= Settings.contractWaitTicks]_vars

\* the proposals an AI seller evaluates in the contract phase of this tick
MatureProposals(sellerId, resource) ==
  {i \in 1..Len(contracts) :
     /\ contracts[i].status = "proposed"
     /\ contracts[i].sellerEntityId = sellerId
     /\ contracts[i].resource = resource
     /\ tick - contracts[i].proposedAtTick >= Settings.contractWaitTicks}

\* the proposals of P that offer the highest price of P
HighestPriced(P) ==
  {i \in P : \A j \in P : contracts[j].pricePerUnit <= contracts[i].pricePerUnit}

\* C12: proposal evaluation.  In the contract phase of any tick, for each
\* AI-controlled seller and each resource with a non-empty set P of mature
\* proposals: if the highest price in P is at or above the seller's cost floor
\* for the resource, exactly one proposal of P with that highest price becomes
\* active and every other proposal of P becomes cancelled; otherwise every
\* proposal of P becomes cancelled; no mature proposal of an AI seller stays
\* proposed.
ProposalEvaluation ==
  [][pc = "contracts" =>
       \A sellerId \in EntityIds \ {player} : \A resource \in Resources :
          LET P == MatureProposals(sellerId, resource)
              top == HighestPriced(P)
              activated == {i \in P : contracts'[i].status = "active"}
          IN P # {} =>
               /\ \A i \in P : contracts'[i].status \in {"active", "cancelled"}
               /\ IF \E i \in top : atOrAboveCostFloor(sellerId, resource,
                                                       contracts[i].pricePerUnit)
                  THEN Cardinality(activated) = 1 /\ activated \subseteq top
                  ELSE activated = {}
    ]_vars

\* the contract phase has evaluated two proposals for one seller and resource
\* that offered different prices: the dearer one is active, the other cancelled
ProposalEvaluationWitness ==
  /\ pc = "accept"
  /\ \E i, j \in 1..Len(contracts) :
        /\ contracts[i].sellerEntityId = contracts[j].sellerEntityId
        /\ contracts[i].sellerEntityId # player
        /\ contracts[i].resource = contracts[j].resource
        /\ contracts[i].proposedAtTick = contracts[j].proposedAtTick
        /\ contracts[i].pricePerUnit > contracts[j].pricePerUnit
        /\ contracts[i].status = "active" /\ contracts[i].acceptedAtTick = tick
        /\ contracts[j].status = "cancelled"

\* the statuses a contract never leaves
Terminal(contract) == contract.status \in {"completed", "cancelled"}

\* C13: contract status is forward-only.  In every step a contract keeps its
\* status or goes proposed -> active, proposed -> cancelled, active ->
\* completed or active -> cancelled; no contract is removed; a completed or
\* cancelled contract never changes again (unitsShipped, unitsMissed and
\* nextDeliveryTick included), no order is created for it, and money is
\* deducted in the contract phase only from the seller of an active contract
\* that records a missed delivery.
ContractForwardOnly ==
  [][/\ Len(contracts') >= Len(contracts)
     /\ \A i \in 1..Len(contracts) :
          LET old == contracts[i].status
              new == contracts'[i].status
          IN /\ \/ new = old
                \/ old = "proposed" /\ new \in {"active", "cancelled"}
                \/ old = "active" /\ new \in {"completed", "cancelled"}
             /\ Terminal(contracts[i]) =>
                  /\ contracts'[i] = contracts[i]
                  /\ \A k \in (Len(orders) + 1)..Len(orders') : orders'[k].contractId # i
     /\ pc = "contracts" =>
          \A id \in EntityIds :
             entities'[id].money # entities[id].money =>
               \E i \in 1..Len(contracts) :
                  /\ contracts[i].sellerEntityId = id
                  /\ contracts[i].status = "active"
                  /\ contracts'[i].unitsMissed > contracts[i].unitsMissed
    ]_vars

\* a contract phase has passed over a contract with units left that was
\* cancelled after it had been active, and whose next delivery tick has come
ContractForwardOnlyWitness ==
  /\ pc = "accept"
  /\ \E i \in 1..Len(contracts) :
        /\ contracts[i].status = "cancelled"
        /\ contracts[i].acceptedAtTick > 0
        /\ contracts[i].nextDeliveryTick <= tick
        /\ Processed(contracts[i]) < contracts[i].totalUnits

\* the orders the acceptance phase of this tick settles for a seller and resource
PendingFor(sellerId, resource) ==
  {i \in 1..Len(orders) : /\ orders[i].status = "pending"
                          /\ orders[i].sellerEntityId = sellerId
                          /\ orders[i].resource = resource}

TransportTimeOf(i) ==
  getTransportTime(Scenario[orders[i].sellerEntityId].locationId,
                   Scenario[orders[i].buyerEntityId].locationId)

\* order a ranks before order b: higher price, then shorter transport time to
\* the buyer, then earlier placement tick
RanksBefore(a, b) ==
  \/ orders[a].pricePerUnit > orders[b].pricePerUnit
  \/ /\ orders[a].pricePerUnit = orders[b].pricePerUnit
     /\ \/ TransportTimeOf(a) < TransportTimeOf(b)
        \/ /\ TransportTimeOf(a) = TransportTimeOf(b)
           /\ orders[a].placedAtTick < orders[b].placedAtTick

\* order a was served before order b: whenever b got anything, a got all it
\* asked for
ServedFirst(a, b) ==
  orders'[b].status = "accepted" =>
    /\ orders'[a].status = "accepted"
    /\ orders'[a].fulfilledQuantity = orders[a].requestedQuantity

\* the production cost per unit a seller's acceptance compares a price with:
\* that of the first process of its type that outputs the resource
ProductionCostOf(sellerId, resource) ==
  LET production == getEntityType(sellerId).production
      makers == {k \in 1..Len(production) : producesResource(production[k], resource)}
  IN IF makers = {} THEN [num |-> 0, den |-> 1]
     ELSE getProductionCostPerUnit(production[CHOOSE k \in makers : \A j \in makers : k <= j])

\* the price of order i is below its seller's production cost per unit
BelowCost(i) ==
  orders[i].pricePerUnit * ProductionCostOf(orders[i].sellerEntityId, orders[i].resource).den
    < ProductionCostOf(orders[i].sellerEntityId, orders[i].resource).num

\* two orders with different prices are the only pending ones for a seller and
\* resource, and the available stock is enough for either but not for both
OnlyOneFits(sellerId, resource, hi, lo) ==
  /\ PendingFor(sellerId, resource) = {hi, lo}
  /\ orders[hi].pricePerUnit > orders[lo].pricePerUnit
  /\ getAvailable(entities[sellerId], resource) >= orders[hi].requestedQuantity
  /\ getAvailable(entities[sellerId], resource) >= orders[lo].requestedQuantity
  /\ getAvailable(entities[sellerId], resource)
       < orders[hi].requestedQuantity + orders[lo].requestedQuantity

\* C14 as stated: within one seller's pending orders of a tick the orders are
\* served higher price first, then shorter transport time, then earlier
\* placement tick; of two pending orders for the same seller and resource with
\* different prices and available stock enough for either alone but not for
\* both, the dearer one is accepted and the cheaper one is declined.
AcceptancePriorityDeclines ==
  [][pc = "accept" =>
       \A sellerId \in EntityIds : \A resource \in Resources :
          \A a, b \in PendingFor(sellerId, resource) :
             /\ RanksBefore(a, b) => ServedFirst(a, b)
             /\ OnlyOneFits(sellerId, resource, a, b) =>
                  /\ orders'[a].status = "accepted"
                  /\ orders'[b].status = "declined"
    ]_vars

\* C14, amended: within one seller's pending orders of a tick the orders are
\* served higher price first, then shorter transport time, then earlier
\* placement tick; of two pending orders for the same seller and resource with
\* different prices and available stock enough for either alone but not for
\* both, the dearer one is accepted in full and the cheaper one gets what is
\* left when its price is not below the seller's production cost: it is
\* accepted for available - requested(dearer) units and flagged wasAmended when
\* that is positive, and declined only when nothing is left.
AcceptancePriority ==
  [][pc = "accept" =>
       \A sellerId \in EntityIds : \A resource \in Resources :
          \A a, b \in PendingFor(sellerId, resource) :
             /\ RanksBefore(a, b) => ServedFirst(a, b)
             /\ OnlyOneFits(sellerId, resource, a, b) /\ ~BelowCost(b) =>
                  LET left == getAvailable(entities[sellerId], resource)
                                - orders[a].requestedQuantity
                  IN /\ orders'[a].status = "accepted"
                     /\ orders'[a].fulfilledQuantity = orders[a].requestedQuantity
                     /\ ~orders'[a].wasAmended
                     /\ orders'[b].fulfilledQuantity = left
                     /\ orders'[b].status = (IF left > 0 THEN "accepted" ELSE "declined")
                     /\ left > 0 => orders'[b].wasAmended
    ]_vars

\* the acceptance phase has just settled two orders of this tick for one seller
\* and resource, with stock for either alone but not for both: the dearer one,
\* placed later, is accepted in full and the cheaper one is accepted in part
AcceptancePriorityWitness ==
  /\ pc = "depart"
  /\ \E hi, lo \in 1..Len(orders) :
        /\ hi > lo
        /\ orders[hi].placedAtTick = tick /\ orders[lo].placedAtTick = tick
        /\ orders[hi].sellerEntityId = orders[lo].sellerEntityId
        /\ orders[hi].resource = orders[lo].resource
        /\ orders[hi].pricePerUnit > orders[lo].pricePerUnit
        /\ orders[hi].status = "accepted" /\ ~orders[hi].wasAmended
        /\ orders[lo].status = "accepted" /\ orders[lo].wasAmended
        /\ LET seller == entities[orders[hi].sellerEntityId]
               resource == orders[hi].resource
           IN /\ seller.inventory[resource] >= orders[hi].requestedQuantity
              /\ seller.inventory[resource] >= orders[lo].requestedQuantity
              /\ seller.committed[resource]
                   = orders[hi].fulfilledQuantity + orders[lo].fulfilledQuantity
              /\ seller.committed[resource] = seller.inventory[resource]

\* the units a seller promised of a resource in the acceptance phase that led
\* from the orders before to the orders after
RECURSIVE AcceptedUnits(_, _, _, _, _)
AcceptedUnits(before, after, sellerId, resource, i) ==
  IF i > Len(before) THEN 0
  ELSE (IF /\ before[i].status = "pending" /\ after[i].status = "accepted"
           /\ before[i].sellerEntityId = sellerId /\ before[i].resource = resource
        THEN after[i].fulfilledQuantity ELSE 0)
       + AcceptedUnits(before, after, sellerId, resource, i + 1)

\* C15: acceptance never over-promises.  For every seller and resource the sum
\* of fulfilledQuantity over the orders accepted in one acceptance phase is at
\* most the seller's available stock (inventory - committed) at the start of
\* the phase, and the seller's committed grows by exactly that sum while the
\* inventory stays; every accepted order has 0 < fulfilledQuantity <=
\* requestedQuantity, and wasAmended is true exactly when fulfilledQuantity <
\* requestedQuantity.
AcceptanceNeverOverPromises ==
  [][pc = "accept" =>
       /\ \A sellerId \in EntityIds : \A resource \in Resources :
            LET promised == AcceptedUnits(orders, orders', sellerId, resource, 1)
            IN /\ promised <= getAvailable(entities[sellerId], resource)
               /\ entities'[sellerId].committed[resource]
                    = entities[sellerId].committed[resource] + promised
               /\ entities'[sellerId].inventory[resource]
                    = entities[sellerId].inventory[resource]
       /\ \A i \in 1..Len(orders) :
            orders[i].status = "pending" /\ orders'[i].status = "accepted" =>
              /\ 0 < orders'[i].fulfilledQuantity
              /\ orders'[i].fulfilledQuantity <= orders[i].requestedQuantity
              /\ orders'[i].requestedQuantity = orders[i].requestedQuantity
              /\ orders'[i].wasAmended
                   <=> orders'[i].fulfilledQuantity < orders[i].requestedQuantity
    ]_vars

\* the acceptance phase has promised a seller's whole stock to two orders of
\* the same price: the one placed first in full, the other in part
AcceptanceNeverOverPromisesWitness ==
  /\ pc = "depart"
  /\ \E a, b \in 1..Len(orders) :
        /\ a < b
        /\ orders[a].placedAtTick = tick /\ orders[b].placedAtTick = tick
        /\ orders[a].sellerEntityId = orders[b].sellerEntityId
        /\ orders[a].resource = orders[b].resource
        /\ orders[a].pricePerUnit = orders[b].pricePerUnit
        /\ orders[a].status = "accepted"
        /\ orders[a].fulfilledQuantity = orders[a].requestedQuantity
        /\ orders[b].status = "accepted"
        /\ orders[b].fulfilledQuantity < orders[b].requestedQuantity
        /\ entities[orders[a].sellerEntityId].committed[orders[a].resource]
             = orders[a].fulfilledQuantity + orders[b].fulfilledQuantity
        /\ entities[orders[a].sellerEntityId].committed[orders[a].resource]
             = entities[orders[a].sellerEntityId].inventory[orders[a].resource]

\* order j has its turn before order i in their seller's priority order
TurnBefore(j, i) == RanksBefore(j, i) \/ (~RanksBefore(i, j) /\ j < i)

\* what the seller of order i promised, in the phase that led to the orders
\* after, to the orders for the same resource that had their turn before i
RECURSIVE PromisedBefore(_, _, _)
PromisedBefore(after, i, j) ==
  IF j > Len(orders) THEN 0
  ELSE (IF /\ j \in PendingFor(orders[i].sellerEntityId, orders[i].resource)
           /\ TurnBefore(j, i)
        THEN after[j].fulfilledQuantity ELSE 0)
       + PromisedBefore(after, i, j + 1)

\* C16: decline rule.  A pending order is settled as declined with
\* fulfilledQuantity 0 when, at its turn in the seller's priority order, the
\* seller's available stock for the resource is <= 0 or its pricePerUnit is
\* below the seller's production cost per unit for that resource; in every
\* other case with a positive requested quantity it is accepted; the phase
\* changes no inventory and no money, and raises committed only by what the
\* accepted orders were promised, so that a decline changes neither.
DeclineRule ==
  [][pc = "accept" =>
       /\ \A i \in 1..Len(orders) :
            orders[i].status = "pending" =>
              LET available == getAvailable(entities[orders[i].sellerEntityId],
                                            orders[i].resource)
                                 - PromisedBefore(orders', i, 1)
              IN IF available <= 0 \/ BelowCost(i)
                 THEN /\ orders'[i].status = "declined"
                      /\ orders'[i].fulfilledQuantity = 0
                 ELSE orders[i].requestedQuantity > 0 => orders'[i].status = "accepted"
       /\ \A id \in EntityIds :
            /\ entities'[id].inventory = entities[id].inventory
            /\ entities'[id].money = entities[id].money
            /\ \A r \in Resources :
                 entities'[id].committed[r]
                   = entities[id].committed[r] + AcceptedUnits(orders, orders', id, r, 1)
    ]_vars

\* the acceptance phase has just declined an order priced below the cost of a
\* seller that had stock to spare, and an order at a fair price whose seller
\* had promised everything to the orders before it
DeclineRuleWitness ==
  /\ pc = "depart"
  /\ \E i \in 1..Len(orders) :
        /\ orders[i].status = "declined" /\ orders[i].placedAtTick = tick
        /\ BelowCost(i)
        /\ getAvailable(entities[orders[i].sellerEntityId], orders[i].resource) > 0
  /\ \E i \in 1..Len(orders) :
        /\ orders[i].status = "declined" /\ orders[i].placedAtTick = tick
        /\ ~BelowCost(i)
        /\ getAvailable(entities[orders[i].sellerEntityId], orders[i].resource) = 0

\* what the deliveries dels pay to entity id, less what they charge it
RECURSIVE NetPayment(_, _, _)
NetPayment(dels, id, i) ==
  IF i > Len(dels) THEN 0
  ELSE (IF dels[i].fromEntityId = id THEN dels[i].quantity * dels[i].pricePerUnit ELSE 0)
       - (IF dels[i].toEntityId = id THEN dels[i].quantity * dels[i].pricePerUnit ELSE 0)
       + NetPayment(dels, id, i + 1)

RECURSIVE TotalMoney(_, _)
TotalMoney(ents, k) ==
  IF k > Len(EntityOrder) THEN 0
  ELSE ents[EntityOrder[k]].money + TotalMoney(ents, k + 1)

\* the deliveries that stay under way in an arrival phase, one tick closer
StillUnderWay ==
  LET stay == SelectSeq(deliveries, LAMBDA d : d.ticksRemaining > 0)
  IN [k \in 1..Len(stay) |-> [stay[k] EXCEPT !.ticksRemaining = @ - 1]]

\* C17: arrival settlement.  In the arrival phase, for the deliveries that
\* arrive (ticksRemaining <= 0): every buyer's inventory of each resource grows
\* by the arriving quantities, quantity x pricePerUnit of each is moved from
\* the buyer's money to the seller's money (the sum of all money unchanged,
\* balances free to go negative), exactly these deliveries leave the delivery
\* list and exactly their orders go from in_transit to delivered; outside the
\* arrival phase no order becomes delivered and no delivery leaves the list.
ArrivalSettlement ==
  [][/\ pc = "arrivals" =>
          /\ \A id \in EntityIds :
               /\ \A r \in Resources :
                    entities'[id].inventory[r]
                      = entities[id].inventory[r]
                        + DeliveryUnits(Arrived, "any", id, r, 1)
               /\ entities'[id].money = entities[id].money + NetPayment(Arrived, id, 1)
               /\ entities'[id].committed = entities[id].committed
          /\ TotalMoney(entities', 1) = TotalMoney(entities, 1)
          /\ deliveries' = StillUnderWay
          /\ \A i \in 1..Len(orders) :
               IF \E k \in 1..Len(Arrived) : Arrived[k].orderId = i
               THEN /\ orders[i].status = "in_transit"
                    /\ orders'[i] = [orders[i] EXCEPT !.status = "delivered",
                                                      !.deliveredAtTick = tick']
               ELSE orders'[i] = orders[i]
     /\ pc # "arrivals" =>
          /\ Arriving = {}
          /\ Len(deliveries') >= Len(deliveries)
          /\ SubSeq(deliveries', 1, Len(deliveries)) = deliveries
    ]_vars

\* an arrival phase has just settled a delivery: its order is delivered, the
\* delivery is gone from the list, and the payment left the buyer in debt
ArrivalSettlementWitness ==
  /\ pc = "demand"
  /\ \E i \in 1..Len(orders) :
        /\ orders[i].status = "delivered" /\ orders[i].deliveredAtTick = tick
        /\ orders[i].fulfilledQuantity * orders[i].pricePerUnit > 0
        /\ entities[orders[i].buyerEntityId].money < 0
        /\ entities[orders[i].buyerEntityId].money
             + orders[i].fulfilledQuantity * orders[i].pricePerUnit >= 0
        /\ \A k \in 1..Len(deliveries) : deliveries[k].orderId # i
  /\ \E k \in 1..Len(deliveries) : deliveries[k].ticksRemaining = 0

\* the units of a resource that arrived at an entity in the tick now
RECURSIVE ArrivedNow(_, _, _, _, _)
ArrivedNow(ords, id, resource, now, i) ==
  IF i > Len(ords) THEN 0
  ELSE (IF /\ ords[i].status = "delivered" /\ ords[i].deliveredAtTick = now
           /\ ords[i].buyerEntityId = id /\ ords[i].resource = resource
        THEN ords[i].fulfilledQuantity ELSE 0)
       + ArrivedNow(ords, id, resource, now, i + 1)

\* the phase that follows each phase of a tick
NextPhase ==
  [arrivals |-> "demand", demand |-> "production", production |-> "retail",
   retail |-> "storage", storage |-> "player", player |-> "ai", ai |-> "contracts",
   contracts |-> "accept", accept |-> "depart", depart |-> "status",
   status |-> "arrivals"]

\* the orders a step adds for a buyer and a resource
NewOrders(buyerId, resource) ==
  {k \in (Len(orders) + 1)..Len(orders') :
     orders'[k].buyerEntityId = buyerId /\ orders'[k].resource = resource}

\* the stock below which an AI buyer reorders a resource
ReorderThreshold(buyerId, resource) ==
  IF \E c \in 1..Len(contracts) : /\ contracts[c].buyerEntityId = buyerId
                                  /\ contracts[c].resource = resource
                                  /\ contracts[c].status = "active"
  THEN AI_EMERGENCY_THRESHOLD ELSE AI_REORDER_THRESHOLD

\* C18: arrivals before decisions.  The arrival phase is the first phase of a
\* tick and adds the arriving stock to the buyers' inventories at once; the
\* phases follow each other in a fixed order within the tick, and each of
\* production, retail selling, AI decisions, contract management and order
\* acceptance acts on the inventory as the phases before it left it, the stock
\* arrived in this tick included (player actions do not read the inventory;
\* demand, storage, player, AI and acceptance phases leave it unchanged; the
\* order of a due contract is looked at for buyers that have a supplier of the
\* resource, as no order is placed for the others).  A player phase that
\* raises an error ends the tick without a next state.
ArrivalsBeforeDecisions ==
  [][/\ pc' = NextPhase[pc] \/ (pc = "player" /\ pc' = "thrown")
     /\ tick' = (IF pc = "arrivals" THEN tick + 1 ELSE tick)
     /\ pc = "arrivals" =>
          \A id \in EntityIds : \A r \in Resources :
             entities'[id].inventory[r]
               = entities[id].inventory[r] + ArrivedNow(orders', id, r, tick', 1)
     /\ pc \in {"demand", "storage", "player", "ai", "accept"} =>
          \A id \in EntityIds : entities'[id].inventory = entities[id].inventory
     /\ pc = "production" =>
          \A i \in 1..Len(prodLog') :
             (\A j \in 1..(i - 1) :
                 prodLog'[j].before.entityId # prodLog'[i].before.entityId)
             => prodLog'[i].inv0 = entities[prodLog'[i].before.entityId].inventory
     /\ pc = "retail" =>
          \A id \in EntityIds : \A r \in Resources :
             LET sold == sales'[id][r].totalSold - sales[id][r].totalSold
             IN /\ sold <= getAvailable(entities[id], r)
                /\ sales'[id][r].lostSales > sales[id][r].lostSales
                     => sold = getAvailable(entities[id], r)
     /\ pc = "ai" =>
          \A id \in EntityIds \ {player} :
             \A k \in 1..Len(getEntityType(id).procurement) :
                LET r == getEntityType(id).procurement[k]
                IN Len(Scenario[id].suppliers[r]) > 0 =>
                     (NewOrders(id, r) # {}
                        <=> entities[id].inventory[r] < ReorderThreshold(id, r))
     /\ pc = "contracts" =>
          \A i \in 1..Len(contracts) :
             (/\ contracts[i].status = "active"
              /\ contracts[i].nextDeliveryTick <= tick
              /\ DueQuantity(contracts[i]) > 0
              /\ Len(Scenario[contracts[i].buyerEntityId].suppliers[contracts[i].resource]) > 0)
             => ((\E k \in (Len(orders) + 1)..Len(orders') : orders'[k].contractId = i)
                   <=> getAvailable(entities[contracts[i].sellerEntityId],
                                    contracts[i].resource) >= DueQuantity(contracts[i]))
     /\ pc = "accept" =>
          \A i \in 1..Len(orders) :
             (orders[i].status = "pending" /\ ~BelowCost(i)
                /\ orders'[i].status = "declined")
             => entities'[orders[i].sellerEntityId].committed[orders[i].resource]
                  = entities[orders[i].sellerEntityId].inventory[orders[i].resource]
    ]_vars

\* a line consumed, in the production phase of this tick, cycle inputs that
\* its owner would not have held without the stock that arrived in this tick
ArrivalsBeforeDecisionsWitness ==
  /\ pc \in {"storage", "player", "ai", "contracts", "accept", "depart", "status"}
  /\ \E i \in 1..Len(prodLog) :
        LET entry == prodLog[i]
            process == ProductionProcesses[entry.before.processId]
        IN /\ entry.cycle
           /\ \E k \in 1..Len(process.cycleInputs) :
                 LET r == process.cycleInputs[k].resource
                     arrived == ArrivedNow(orders, entry.before.entityId, r, tick, 1)
                 IN /\ arrived > 0
                    /\ entry.inv0[r] - arrived
                         < process.cycleInputs[k].quantity * entry.before.volume


(***************************************************************************)
(* Startup inputs.                                                         *)
(***************************************************************************)
\* how often the startup inputs of the line were deducted since its creation
StartupsOf(id) ==
  IF id \in DOMAIN lineHistory THEN lineHistory[id].startups ELSE 0

\* every step of a starting line in the last production phase took either
\* nothing or each startup input at its configured quantity, whatever the volume
StartupStepsUnscaled ==
  \A i \in 1..Len(prodLog) :
    prodLog[i].before.phase = "starting" =>
      \A r \in Resources :
        prodLog[i].inv0[r] - prodLog[i].inv1[r] =
          IF prodLog[i].startup
          THEN ListedUnits(ProductionProcesses[prodLog[i].before.processId].startupInputs,
                           r, 1, 1)
          ELSE 0

\* C19: every line in phase running whose process has startup inputs has had
\* them deducted from its owner's inventory exactly once since its creation, at
\* the configured quantity whatever its volume, for every startupTicks >= 0
StartupInputsOnce ==
  /\ StartupStepsUnscaled
  /\ \A i \in 1..Len(processLines) :
       (/\ processLines[i].phase = "running"
        /\ Len(ProductionProcesses[processLines[i].processId].startupInputs) > 0)
         => StartupsOf(processLines[i].id) = 1

\* the same for the lines of processes with startupTicks >= 1 only, and no
\* starting line has paid more than once
StartupInputsOnceWhenTimed ==
  /\ StartupStepsUnscaled
  /\ \A i \in 1..Len(processLines) :
       LET process == ProductionProcesses[processLines[i].processId]
       IN (process.startupTicks >= 1 /\ Len(process.startupInputs) > 0)
            => /\ StartupsOf(processLines[i].id) <= 1
               /\ processLines[i].phase = "running"
                    => StartupsOf(processLines[i].id) = 1


(***************************************************************************)
(* Volume changes.                                                         *)
(***************************************************************************)
\* the volume the line had when its current cycle began
CycleVolumeOf(id) ==
  IF id \in DOMAIN lineHistory THEN lineHistory[id].cycleVolume ELSE 0

\* the steps of the last production phase that completed a cycle begun in an
\* earlier tick
CompletedCycles ==
  {i \in 1..Len(prodLog) : prodLog[i].emitted /\ prodLog[i].before.progress > 0}

\* C20: a cycle that completes emits its outputs, and takes the tick inputs of
\* its last tick, scaled by the volume the line had when the cycle began (when
\* its cycle inputs were consumed), whatever set_volume did to the line since
VolumeAtCycleBoundary ==
  \A i \in CompletedCycles :
    LET process == ProductionProcesses[prodLog[i].before.processId]
        volume == CycleVolumeOf(prodLog[i].before.id)
    IN \A r \in Resources :
         prodLog[i].inv1[r] - prodLog[i].inv0[r] =
           ListedUnits(process.outputs, r, volume, 1)
           - ListedUnits(process.tickInputs, r, volume, 1)


(***************************************************************************)
(* Process lines: capacity, bounds, ownership, lifetime.                   *)
(***************************************************************************)
\* the positions of the lines an entity owns
OwnedLines(lines, entityId) == {i \in 1..Len(lines) : lines[i].entityId = entityId}

\* C21: in every reachable state no entity owns more process lines than the
\* maxProcessLines of its entity type, whatever start_line actions the player
\* submitted and whatever the production decisions of the AI were
CapacityInvariant ==
  \A id \in EntityIds :
    Cardinality(OwnedLines(processLines, id)) <= getEntityType(id).maxProcessLines

\* the player entity is at its capacity of two lines when its actions have
\* been applied, and an AI entity is at its capacity as well
CapacityWitness ==
  /\ pc = "ai"
  /\ getEntityType(player).maxProcessLines = 2
  /\ Cardinality(OwnedLines(processLines, player)) = 2
  /\ \E id \in EntityIds \ {player} :
       /\ getEntityType(id).maxProcessLines > 0
       /\ Cardinality(OwnedLines(processLines, id)) = getEntityType(id).maxProcessLines


\* C22: in every reachable state every process line has a volume within
\* [minVolume, maxVolume] of its process and a progress of at least 0 and below
\* cycleTicks, whatever quantities start_line and set_volume were given
LineStateBounds ==
  \A i \in 1..Len(processLines) :
    LET process == ProductionProcesses[processLines[i].processId]
    IN /\ process.minVolume <= processLines[i].volume
       /\ processLines[i].volume <= process.maxVolume
       /\ 0 <= processLines[i].progress
       /\ processLines[i].progress < process.cycleTicks

\* a line in the last tick of its cycle whose volume set_volume raised to
\* maxVolume since the cycle began
LineStateBoundsWitness ==
  \E i \in 1..Len(processLines) :
    LET process == ProductionProcesses[processLines[i].processId]
    IN /\ processLines[i].progress = process.cycleTicks - 1
       /\ processLines[i].progress > 0
       /\ processLines[i].volume = process.maxVolume
       /\ CycleVolumeOf(processLines[i].id) = process.minVolume
       /\ process.minVolume < process.maxVolume


(***************************************************************************)
(* Routing.                                                                *)
(***************************************************************************)
\* the cost of the cheapest corridor that joins two locations, -1 if none does
CorridorCost(corridors, a, b) ==
  LET cs == {i \in 1..Len(corridors) :
               \/ corridors[i].locationA = a /\ corridors[i].locationB = b
               \/ corridors[i].locationA = b /\ corridors[i].locationB = a}
  IN IF cs = {} THEN -1
     ELSE LET i == CHOOSE i \in cs : \A j \in cs : corridors[i].cost <= corridors[j].cost
          IN corridors[i].cost

\* the least summed corridor cost over the paths from a to b that avoid the
\* locations given, -1 if there is none
RECURSIVE PathCostVia(_, _, _, _, _)
PathCostVia(corridors, locs, a, b, avoid) ==
  IF a = b THEN 0
  ELSE LET nexts == {n \in locs \ avoid : CorridorCost(corridors, a, n) >= 0}
           costs == {CorridorCost(corridors, a, n)
                       + PathCostVia(corridors, locs, n, b, avoid \cup {n}) :
                       n \in {m \in nexts :
                                PathCostVia(corridors, locs, m, b, avoid \cup {m}) >= 0}}
       IN IF costs = {} THEN -1
          ELSE CHOOSE c \in costs : \A d \in costs : c <= d

CheapestCost(a, b) ==
  PathCostVia(config.corridors, DOMAIN config.locations, a, b, {a})

LocalTicks(a) == config.locations[a].localTransportTicks

\* the summed cost of the corridors along a route, -1 if two consecutive
\* locations have no corridor
RECURSIVE RouteCost(_, _)
RouteCost(route, k) ==
  IF k >= Len(route) THEN 0
  ELSE LET step == CorridorCost(config.corridors, route[k], route[k + 1])
           rest == RouteCost(route, k + 1)
       IN IF step < 0 \/ rest < 0 THEN -1 ELSE step + rest

\* the line graph A-B (cost 2), B-C (cost 3)
IsLineGraph ==
  /\ DOMAIN config.locations = {"A", "B", "C"}
  /\ Len(config.corridors) = 2
  /\ CorridorCost(config.corridors, "A", "B") = 2
  /\ CorridorCost(config.corridors, "B", "C") = 3

\* C23: on every connected corridor graph, for distinct locations a, b the
\* route getTransportRoute returns starts at a, ends at b, joins consecutive
\* locations by corridors, has the least summed corridor cost of all a-b paths,
\* and totalTime = local(a) + that cost + local(b); on the line graph A-B (2),
\* B-C (3) the route from A to C is <<A, B, C>> with time local(A) + 5 + local(C)
RoutingCorrectness ==
  (query.kind \in {"route", "time and route"} /\ query.from # query.to) =>
     /\ Len(query.route) >= 2
     /\ query.route[1] = query.from
     /\ query.route[Len(query.route)] = query.to
     /\ RouteCost(query.route, 1) = CheapestCost(query.from, query.to)
     /\ query.totalTime = LocalTicks(query.from) + CheapestCost(query.from, query.to)
                          + LocalTicks(query.to)
     /\ (IsLineGraph /\ query.from = "A" /\ query.to = "C") =>
           /\ query.route = <<"A", "B", "C">>
           /\ query.totalTime = LocalTicks("A") + 5 + LocalTicks("C")

\* a route over a third location was returned for two locations of a
\* four-location graph that a dearer corridor joins directly
RoutingCorrectnessWitness ==
  /\ query.kind = "route"
  /\ Len(query.route) = 3
  /\ DOMAIN config.locations = {"A", "B", "C", "D"}
  /\ CorridorCost(config.corridors, query.from, query.to) > RouteCost(query.route, 1)

\* the route from A to C on the line graph was returned
RoutingLineGraphReached ==
  IsLineGraph /\ query.kind = "route" /\ query.from = "A" /\ query.to = "C"


\* what the transport time between two locations is to be
EndpointTime(a, b) ==
  IF a = b THEN LocalTicks(a) ELSE LocalTicks(a) + CheapestCost(a, b) + LocalTicks(b)

\* C24: getTransportTime(a, b) is local(a) + path cost + local(b), the local
\* ticks of no location between them added; for a = b it is local(a), once, and
\* the route is <<a>>; getTransportTime and getTransportRoute give the same time
LocalOnlyAtEndpoints ==
  /\ query.kind \in {"time", "time and route"} =>
       query.time = EndpointTime(query.from, query.to)
  /\ query.kind \in {"route", "time and route"} =>
       /\ query.totalTime = EndpointTime(query.from, query.to)
       /\ query.from = query.to => query.route = <<query.from>>
  /\ query.kind = "time and route" => query.time = query.totalTime

\* time and route were asked for two locations whose route passes a third one
\* with local transport ticks of its own
LocalOnlyAtEndpointsWitness ==
  /\ query.kind = "time and route"
  /\ Len(query.route) = 3
  /\ LocalTicks(query.route[2]) > 0
  /\ query.time = LocalTicks(query.from) + RouteCost(query.route, 1) + LocalTicks(query.to)

\* time and route were asked from a location to itself
SameLocationReached ==
  query.kind = "time and route" /\ query.from = query.to /\ LocalTicks(query.from) > 0


\* C25: the stop_line and set_volume actions of the player entity remove or
\* change only lines the player entity owns: every line of another entity is
\* still there after the player's actions, with the volume it had
OwnershipOfLineActions ==
  [][pc = "player" =>
       \A i \in 1..Len(processLines) :
          processLines[i].entityId # player =>
            \E j \in 1..Len(processLines') :
               /\ processLines'[j].id = processLines[i].id
               /\ processLines'[j].volume = processLines[i].volume
    ]_vars


(***************************************************************************)
(* Player actions that are not valid.                                      *)
(***************************************************************************)
\* the action is one of the invalid actions in the state st of the loop: its
\* entity is unknown or not the player's, it starts a line of a known process
\* at full capacity, it orders a resource for which the entity has no
\* supplier, or it accepts or declines a contract that is not proposed or not
\* sold by the entity
IsInvalidAction(st, who, x) ==
  \/ x.entityId \notin DOMAIN st.ents
  \/ x.entityId # who
  \/ /\ x.action = "start_line"
     /\ x.targetId \in ProcessIds
     /\ Cardinality(OwnedLines(st.lines, x.entityId))
          >= getEntityType(x.entityId).maxProcessLines
  \/ /\ x.action = "order"
     /\ Len(Scenario[x.entityId].suppliers[x.targetId]) = 0
  \/ /\ x.action \in {"accept_contract", "decline_contract"}
     /\ \/ x.contractId \notin 1..Len(st.contracts)
        \/ st.contracts[x.contractId].status # "proposed"
        \/ st.contracts[x.contractId].sellerEntityId # x.entityId

\* the invalid actions among those the player may queue now
InvalidActionsNow ==
  {x \in PlayerMenu(player, processLines, contracts) :
     IsInvalidAction(PlayerState, player, x)}

\* C26: an invalid action leaves the state after the player-action step what
\* it is without the action, alone or queued before or after another action,
\* which is still applied
InvalidActionsAreNoOps ==
  pc = "player" =>
    \A x \in InvalidActionsNow :
      /\ processPlayerOrders(PlayerState, player, <<x>>, 1) = PlayerState
      /\ actionsLeft >= 2 =>
           \A a \in PlayerMenu(player, processLines, contracts) :
             LET alone == processPlayerOrders(PlayerState, player, <<a>>, 1)
             IN /\ processPlayerOrders(PlayerState, player, <<x, a>>, 1) = alone
                /\ IsInvalidAction(alone, player, x) =>
                     processPlayerOrders(PlayerState, player, <<a, x>>, 1) = alone

\* the player entity may still queue an action while it has no free line
\* slot, no supplier for some resource, and a proposed contract to which it is
\* not the seller; an unknown entity and an unknown contract may be named too
InvalidActionsWitness ==
  /\ pc = "player"
  /\ actionsLeft >= 1
  /\ \E x \in InvalidActionsNow :
       x.action = "start_line" /\ x.entityId = player /\ x.targetId \in ProcessIds
  /\ \E x \in InvalidActionsNow : x.action = "order" /\ x.entityId = player
  /\ \E x \in InvalidActionsNow :
       /\ x.action = "accept_contract"
       /\ x.entityId = player
       /\ x.contractId \in 1..Len(contracts)
       /\ contracts[x.contractId].status = "proposed"
       /\ contracts[x.contractId].sellerEntityId # player
  /\ \E x \in InvalidActionsNow :
       x.action = "decline_contract" /\ x.contractId \notin 1..Len(contracts)
  /\ \E x \in InvalidActionsNow : x.entityId = "nobody"

\* the player entity is at a capacity of two lines and a further start_line,
\* which the step ignores, is among the actions it may name
InvalidActionsAtCapacity ==
  /\ pc = "player"
  /\ getEntityType(player).maxProcessLines = 2
  /\ \E x \in InvalidActionsNow :
       x.action = "start_line" /\ x.entityId = player /\ x.targetId \in ProcessIds

\* ---------------------------------------------------------------------------
\* C27: start_line target validation

\* the lines of the state after a step that the state before it does not hold
StartedLines ==
  {processLines'[k] : k \in {j \in 1..Len(processLines') :
                               \A i \in 1..Len(processLines) :
                                 processLines[i].id # processLines'[j].id}}

\* C27: the player-action step neither raises an error nor creates a line of
\* a process that the type of the line's entity does not list as production
StartLineTargetValidation ==
  [][pc = "player" =>
       /\ pc' # "thrown"
       /\ \A l \in StartedLines :
            InSeq(l.processId, getEntityType(l.entityId).production)]_vars

\* ---------------------------------------------------------------------------
\* C28: determinism

\* the demand vectors the retail phase may draw in the current state, one
\* demand for each retail slot
RetailDemands ==
  {demands \in [1..Len(RetailSlots) -> 0..8] :
     \A j \in 1..Len(RetailSlots) :
       demands[j] \in getCurrentDemand(demandPhases,
                                       Scenario[RetailSlots[j].entityId].locationId,
                                       RetailSlots[j].resource)}

\* the inventories, money and sales statistics the retail phase may leave
RetailOutcomes == {processRetailSelling(entities, sales, demands) : demands \in RetailDemands}

\* C28: the state a tick leaves is a function of the state it starts from and
\* of the queued actions: the retail phase, which takes no input, has one
\* outcome only
Determinism == pc = "retail" => Cardinality(RetailOutcomes) = 1

\* ---------------------------------------------------------------------------
\* C29: line lifetime

\* the line is in the state after the step with its id, owner and process
LineKept(l) ==
  \E k \in 1..Len(processLines') :
    /\ processLines'[k].id = l.id
    /\ processLines'[k].entityId = l.entityId
    /\ processLines'[k].processId = l.processId

\* the step applies a list of queued actions that holds a stop_line of the line
StoppedByAction(l) ==
  /\ pc = "player"
  /\ \E playerActions \in ActionLists(PlayerMenu(player, processLines, contracts),
                                      actionsLeft) :
       /\ \E i \in 1..Len(playerActions) :
            playerActions[i].action = "stop_line" /\ playerActions[i].lineId = l.id
       /\ processLines' = processPlayerOrders(PlayerState, player, playerActions, 1).lines

\* the step is the decision phase of the AI entities, the line's owner is one
\* of them, its process has neither cycle inputs nor tick inputs, and the
\* owner's stock of the first output has reached MINE_MAX_STOCK
StoppedByOverstock(l) ==
  LET process == ProductionProcesses[l.processId]
  IN /\ pc = "ai"
     /\ l.entityId # player
     /\ process.cycleInputs = <<>> /\ process.tickInputs = <<>>
     /\ entities[l.entityId].inventory[process.outputs[1].resource] >= MINE_MAX_STOCK

\* C29: every line of the state before a step is in the state after it with
\* the same id, owner and process, unless the step applies a stop_line of the
\* line or is the overstock decision of the AI owner of a line of a source
\* process
LineLifetime ==
  [][\A k \in 1..Len(processLines) :
       \/ LineKept(processLines[k])
       \/ StoppedByAction(processLines[k])
       \/ StoppedByOverstock(processLines[k])]_vars

\* the one action the player has queued started a line of a process with
\* inputs, which is still there; a line of the AI entity mine went through
\* this tick's production phase, the stock is at the threshold after it, and
\* the line is gone after the decisions of the AI entities
LineLifetimeWitness ==
  /\ pc = "contracts"
  /\ actionsLeft = MaxPlayerActions - 1
  /\ entities["mine"].inventory["raw"] >= MINE_MAX_STOCK
  /\ \E i \in 1..Len(prodLog) :
       /\ prodLog[i].before.entityId = "mine"
       /\ \A k \in 1..Len(processLines) : processLines[k].id # prodLog[i].before.id
  /\ \E k \in 1..Len(processLines) :
       /\ processLines[k].entityId = player
       /\ ~isSourceProcess(ProductionProcesses[processLines[k].processId])

\* ---------------------------------------------------------------------------
\* C30: AI source-process policy

\* the lines of the entity that run the process, as a set
ProcessLinesOf(lines, entityId, processId) ==
  {lines[k] : k \in {j \in 1..Len(lines) :
                       lines[j].entityId = entityId /\ lines[j].processId = processId}}

\* the policy for one AI entity and one of its source processes over a step
\* of the AI decision phase
SourcePolicyFor(id, processId) ==
  LET process == ProductionProcesses[processId]
      s == entities[id].inventory[process.outputs[1].resource]
      before == ProcessLinesOf(processLines, id, processId)
      after == ProcessLinesOf(processLines', id, processId)
      freeSlot == Cardinality(OwnedLines(processLines, id)) < getEntityType(id).maxProcessLines
  IN /\ (s < MINE_MAX_STOCK /\ before = {} /\ freeSlot) =>
          /\ Cardinality(after) = 1
          /\ \A l \in after : l.volume = process.minVolume
     /\ s > MINE_MAX_STOCK => after = {}
     /\ s = MINE_MAX_STOCK => after = before

\* C30: in the decision phase an AI entity starts one line of a source process
\* at minVolume when the stock is below MINE_MAX_STOCK with no such line and a
\* free slot, stops the lines of the process when the stock is above it, and
\* leaves them as they are when the stock equals it
SourceProcessPolicy ==
  [][pc = "ai" =>
       \A id \in EntityIds \ {player} :
         \A k \in 1..Len(getEntityType(id).production) :
           LET processId == getEntityType(id).production[k]
           IN (/\ ProductionProcesses[processId].cycleInputs = <<>>
               /\ ProductionProcesses[processId].tickInputs = <<>>
               /\ ProductionProcesses[processId].outputs # <<>>)
                => SourcePolicyFor(id, processId)]_vars

\* ---------------------------------------------------------------------------
\* C31: startup stall

\* the owner holds less of some input than the input's quantity
LacksInput(inventory, inputs) ==
  \E k \in 1..Len(inputs) : inventory[inputs[k].resource] < inputs[k].quantity

\* what the inputs take of the resource, each at its quantity
RECURSIVE InputTotal(_, _, _)
InputTotal(inputs, resource, k) ==
  IF k > Len(inputs) THEN 0
  ELSE (IF inputs[k].resource = resource THEN inputs[k].quantity ELSE 0)
       + InputTotal(inputs, resource, k + 1)

\* the log entry is of a starting line that has its startup inputs to consume
AwaitsStartupInputs(entry) ==
  LET process == ProductionProcesses[entry.before.processId]
  IN /\ entry.before.phase = "starting"
     /\ entry.before.startupTicksRemaining = process.startupTicks
     /\ process.startupInputs # <<>>

\* the step the entry logs: a stall that changes nothing when an input is
\* lacking, else the consumption of every input and one startup tick less
StartupStepOf(entry) ==
  LET inputs == ProductionProcesses[entry.before.processId].startupInputs
  IN IF LacksInput(entry.inv0, inputs)
     THEN entry.after = entry.before /\ entry.inv1 = entry.inv0
     ELSE /\ entry.after.startupTicksRemaining = entry.before.startupTicksRemaining - 1
          /\ \A r \in Resources :
               entry.inv1[r] = entry.inv0[r] - InputTotal(inputs, r, 1)

\* C31: in a production phase a starting line that has yet to consume its
\* startup inputs and whose owner lacks one of them stays as it is and takes
\* nothing from the inventory; when the owner holds them all the line takes
\* each of them and startupTicksRemaining drops by 1
StartupStall ==
  [][(pc = "production" \/ pc = "startup") =>
       \A i \in 1..Len(prodLog') :
         AwaitsStartupInputs(prodLog'[i]) => StartupStepOf(prodLog'[i])]_vars

\* in the third tick or later a line with two startup inputs, which has
\* stalled in every tick before, consumes them, and after it a second such
\* line stalls for want of one input while the owner holds the other
StartupStallWitness ==
  /\ pc = "startup"
  /\ tick >= 3
  /\ \E i, j \in 1..Len(prodLog) :
       /\ i < j
       /\ AwaitsStartupInputs(prodLog[i]) /\ AwaitsStartupInputs(prodLog[j])
       /\ Len(ProductionProcesses[prodLog[i].before.processId].startupInputs) = 2
       /\ prodLog[i].startup
       /\ prodLog[i].after.startupTicksRemaining
            = prodLog[i].before.startupTicksRemaining - 1
       /\ Len(ProductionProcesses[prodLog[j].before.processId].startupInputs) = 2
       /\ prodLog[j].after = prodLog[j].before
       /\ prodLog[j].inv0["pow"] >= 1
       /\ prodLog[j].inv0["raw"] < 2

\* ---------------------------------------------------------------------------
\* C32: settled state at tick end

\* C32: in the state a tick returns no order is pending or accepted and no
\* entity has a committed quantity of any resource
SettledAtTickEnd ==
  pc = "arrivals" =>
    /\ \A i \in 1..Len(orders) : orders[i].status \notin {"pending", "accepted"}
    /\ \A id \in EntityIds : \A r \in Resources : entities[id].committed[r] = 0

\* a tick has ended in which one order was placed and shipped and another was
\* placed and declined
SettledAtTickEndWitness ==
  /\ pc = "arrivals"
  /\ tick >= 1
  /\ \E i, j \in 1..Len(orders) :
       /\ orders[i].placedAtTick = tick /\ orders[i].status = "in_transit"
       /\ orders[j].placedAtTick = tick /\ orders[j].status = "declined"

\* ---------------------------------------------------------------------------
\* C33: delivery timing

\* the tick in whose departure phase the order was shipped: the tick of its
\* acceptance
DepartureTickOf(i) == CHOOSE t \in 0..tick : <<i, t>> \in acceptedAt

\* the transport time computed for the order's delivery
TransportTicksOf(i) ==
  getTransportRoute(Scenario[orders[i].sellerEntityId].locationId,
                    Scenario[orders[i].buyerEntityId].locationId).totalTime

\* C33: an order shipped in tick t with transport time T is in transit, its
\* delivery counting down to 0, up to the end of tick t + T, and is delivered
\* with deliveredAtTick = t + T + 1
DeliveryTiming ==
  \A i \in 1..Len(orders) :
    /\ orders[i].status = "in_transit" =>
         /\ tick <= DepartureTickOf(i) + TransportTicksOf(i)
         /\ \E k \in 1..Len(deliveries) :
              /\ deliveries[k].orderId = i
              /\ deliveries[k].ticksRemaining
                   = TransportTicksOf(i) - (tick - DepartureTickOf(i))
    /\ orders[i].status = "delivered" =>
         /\ orders[i].deliveredAtTick = DepartureTickOf(i) + TransportTicksOf(i) + 1
         /\ tick >= orders[i].deliveredAtTick

\* two orders have been delivered, one the tick after it was shipped and one
\* a tick later, over a route that takes a tick
DeliveryTimingWitness ==
  \E i, j \in 1..Len(orders) :
    /\ orders[i].status = "delivered" /\ TransportTicksOf(i) = 0
    /\ orders[i].deliveredAtTick = DepartureTickOf(i) + 1
    /\ orders[j].status = "delivered" /\ TransportTicksOf(j) = 1
    /\ orders[j].deliveredAtTick = DepartureTickOf(j) + 2

\* ---------------------------------------------------------------------------
\* C34: deliveries and in-transit orders

\* the deliveries that reference the order
DeliveriesOf(i) == {k \in 1..Len(deliveries) : deliveries[k].orderId = i}

\* C34: each in_transit order is referenced by exactly one delivery, each
\* delivery references an in_transit order, and the delivery carries the
\* order's fulfilledQuantity, resource, buyer, seller and pricePerUnit
DeliveriesMatchOrders ==
  /\ \A i \in 1..Len(orders) :
       orders[i].status = "in_transit" => Cardinality(DeliveriesOf(i)) = 1
  /\ \A k \in 1..Len(deliveries) :
       LET delivery == deliveries[k]
       IN /\ delivery.orderId \in 1..Len(orders)
          /\ orders[delivery.orderId].status = "in_transit"
          /\ delivery.quantity = orders[delivery.orderId].fulfilledQuantity
          /\ delivery.resource = orders[delivery.orderId].resource
          /\ delivery.toEntityId = orders[delivery.orderId].buyerEntityId
          /\ delivery.fromEntityId = orders[delivery.orderId].sellerEntityId
          /\ delivery.pricePerUnit = orders[delivery.orderId].pricePerUnit

\* two deliveries are under way, one of them for an order that was amended,
\* while other orders have been delivered or declined
DeliveriesMatchOrdersWitness ==
  /\ Len(deliveries) >= 2
  /\ \E k \in 1..Len(deliveries) :
       /\ deliveries[k].orderId \in 1..Len(orders)
       /\ orders[deliveries[k].orderId].wasAmended
  /\ \E i, j \in 1..Len(orders) :
       orders[i].status = "delivered" /\ orders[j].status = "declined"

\* ---------------------------------------------------------------------------
\* C35: contract orders match their contract

\* the orders the step appends for the contract
NewContractOrders(c) ==
  {i \in (Len(orders) + 1)..Len(orders') : orders'[i].contractId = c}

\* C35: whenever the contract step raises a contract's unitsShipped by q it
\* appends exactly one order with the contract's id, and this order requests
\* q at the contract's price from the contract's seller for the contract's
\* buyer
ContractOrdersMatch ==
  [][(pc = "contracts") =>
       \A c \in 1..Len(contracts) :
         contracts'[c].unitsShipped > contracts[c].unitsShipped =>
           /\ Cardinality(NewContractOrders(c)) = 1
           /\ \A i \in NewContractOrders(c) :
                /\ orders'[i].requestedQuantity
                     = contracts'[c].unitsShipped - contracts[c].unitsShipped
                /\ orders'[i].pricePerUnit = contracts[c].pricePerUnit
                /\ orders'[i].buyerEntityId = contracts[c].buyerEntityId
                /\ orders'[i].sellerEntityId = contracts[c].sellerEntityId]_vars

\* ---------------------------------------------------------------------------
\* C36: active contracts terminate

\* the units of the contract that are neither shipped nor missed
UnitsLeft(contract) == contract.totalUnits - contract.unitsShipped - contract.unitsMissed

\* the tick of the last due delivery of an active contract if none is skipped:
\* one due delivery every deliveryInterval ticks, unitsPerDelivery units each
LastDueTick(contract) ==
  contract.nextDeliveryTick
    + ((UnitsLeft(contract) + contract.unitsPerDelivery - 1) \div contract.unitsPerDelivery
         - 1) * contract.deliveryInterval

\* the contract is active and the ticks up to its last due delivery are run
ActiveInTime(c) ==
  /\ c \in 1..Len(contracts)
  /\ contracts[c].status = "active"
  /\ contracts[c].totalUnits >= 1
  /\ contracts[c].unitsPerDelivery >= 1
  /\ contracts[c].deliveryInterval >= 1
  /\ LastDueTick(contracts[c]) <= MaxTick

ContractEnded(c) ==
  c \in 1..Len(contracts) /\ contracts[c].status \in {"completed", "cancelled"}

\* the most contracts a run of MaxTick ticks holds
MaxContracts == 4

\* the contracts a run can hold
ContractSlots == 1..MaxContracts

\* C36: a contract that is active, with the ticks of its remaining due
\* deliveries still to be run, becomes completed or cancelled, unless a tick
\* ends the run with an error
ContractsTerminate ==
  \A c \in ContractSlots : ActiveInTime(c) ~> (ContractEnded(c) \/ pc = "thrown")

\* a contract has ended that shipped a delivery and missed one while it was
\* active
ContractsTerminateWitness ==
  \E c \in 1..Len(contracts) :
    /\ contracts[c].status \in {"completed", "cancelled"}
    /\ contracts[c].acceptedAtTick > 0
    /\ contracts[c].unitsShipped > 0
    /\ contracts[c].unitsMissed > 0

\* the retail revenue between two sales records: the units sold in between,
\* at the retail price of their resource
RECURSIVE RevenueEarned(_, _, _, _)
RevenueEarned(before, after, k, j) ==
  IF k > Len(EntityOrder) THEN 0
  ELSE IF j > Len(ResourceOrder) THEN RevenueEarned(before, after, k + 1, 1)
  ELSE (after[EntityOrder[k]][ResourceOrder[j]].totalSold
          - before[EntityOrder[k]][ResourceOrder[j]].totalSold)
         * getRetailPrice(ResourceOrder[j])
       + RevenueEarned(before, after, k, j + 1)

\* the storage costs of the stock held: storageCostPerUnit for each unit
RECURSIVE StorageCharged(_, _)
StorageCharged(ents, k) ==
  IF k > Len(EntityOrder) THEN 0
  ELSE inventoryUnits(ents[EntityOrder[k]].inventory, 1) * Pricing.storageCostPerUnit
       + StorageCharged(ents, k + 1)

\* the penalties between two contract lists: penaltyPerUnit for each unit
\* missed in between
RECURSIVE PenaltiesCharged(_, _, _)
PenaltiesCharged(before, after, c) ==
  IF c > Len(after) THEN 0
  ELSE (after[c].unitsMissed - (IF c <= Len(before) THEN before[c].unitsMissed ELSE 0))
         * after[c].penaltyPerUnit
       + PenaltiesCharged(before, after, c + 1)

MoneyGained == TotalMoney(entities', 1) - TotalMoney(entities, 1)

MoneyStep ==
  /\ pc = "retail" => MoneyGained = RevenueEarned(sales, sales', 1, 1)
  /\ pc = "storage" => MoneyGained = 0 - StorageCharged(entities, 1)
  /\ pc = "contracts" =>
       /\ MoneyGained = 0 - PenaltiesCharged(contracts, contracts', 1)
       /\ \A id \in EntityIds : entities'[id].money <= entities[id].money
  /\ pc = "arrivals" => MoneyGained = 0
  /\ (pc # "retail" /\ pc # "storage" /\ pc # "contracts" /\ pc # "arrivals") =>
       \A id \in EntityIds : entities'[id].money = entities[id].money

\* C37: money accounting.  The sum of all entities' money grows in the retail
\* phase by the retail revenue of the units sold, falls in the storage phase
\* by the storage costs of the stock held and in the contract phase by the
\* penalties of the units missed, which no entity receives; the delivery
\* settlements of the arrival phase leave the sum as it is, and no other
\* phase of a tick changes any entity's money.
MoneyAccounting == [][MoneyStep]_vars

\* within one tick revenue was earned, storage was charged, a penalty was
\* charged and a delivery was paid for
MoneyAccountingWitness ==
  /\ pc = "accept"
  /\ \E i \in 1..Len(orders) :
       /\ orders[i].status = "delivered" /\ orders[i].deliveredAtTick = tick
       /\ orders[i].fulfilledQuantity * orders[i].pricePerUnit > 0
  /\ \E id \in EntityIds : \E r \in Resources :
       sales[id][r].totalSold > 0 /\ getRetailPrice(r) > 0
  /\ StorageCharged(entities, 1) > 0
  /\ \E c \in 1..Len(contracts) :
       /\ contracts[c].unitsMissed > 0 /\ contracts[c].penaltyPerUnit > 0
       /\ contracts[c].nextDeliveryTick = tick + contracts[c].deliveryInterval

\* the suppliers a buyer may order a resource from
EligibleFor(buyerId, resource) == Scenario[buyerId].suppliers[resource]

\* id is a best supplier of the list: the first of the list when none has stock
\* to offer, and otherwise one with stock, no other with stock being nearer, or
\* as near with more to offer
BestOf(id, buyerId, resource) ==
  LET list == EligibleFor(buyerId, resource)
      stocked == {x \in EntityIds :
                    InSeq(x, list) /\ getAvailable(entities[x], resource) > 0}
      distance(x) == getTransportTime(Scenario[x].locationId, Scenario[buyerId].locationId)
  IN IF stocked = {} THEN id = list[1]
     ELSE /\ id \in stocked
          /\ \A x \in stocked :
               \/ distance(id) < distance(x)
               \/ /\ distance(id) = distance(x)
                  /\ getAvailable(entities[id], resource) >= getAvailable(entities[x], resource)

\* the orders after an order of a buyer that names supplierId
PlacedWith(buyerId, resource, supplierId) ==
  placePendingOrder(entities, orders, tick, buyerId, resource, 2, getBasePrice(resource),
                    supplierId, 0)

\* C38: every order's seller is in the supplier list of its buyer for its
\* resource; an order placed now by any buyer, naming any entity or none as
\* supplier, is not created when the list is empty, goes to the supplier named
\* when the list holds it, and goes to a best supplier of the list otherwise.
EligibleSuppliersOnly ==
  /\ \A i \in 1..Len(orders) :
       InSeq(orders[i].sellerEntityId,
             EligibleFor(orders[i].buyerEntityId, orders[i].resource))
  /\ \A b \in EntityIds : \A r \in Resources : \A s \in EntityIds \cup {"none"} :
       LET placed == PlacedWith(b, r, s)
       IN IF Len(EligibleFor(b, r)) = 0 THEN placed = orders
          ELSE /\ Len(placed) = Len(orders) + 1
               /\ SubSeq(placed, 1, Len(orders)) = orders
               /\ InSeq(placed[Len(placed)].sellerEntityId, EligibleFor(b, r))
               /\ IF InSeq(s, EligibleFor(b, r))
                  THEN placed[Len(placed)].sellerEntityId = s
                  ELSE BestOf(placed[Len(placed)].sellerEntityId, b, r)

\* an order of a contract went to another seller than the contract's, the
\* contract's seller not being in the buyer's list
EligibleSuppliersOnlyWitness ==
  \E i \in 1..Len(orders) :
    /\ orders[i].contractId > 0
    /\ contracts[orders[i].contractId].sellerEntityId # orders[i].sellerEntityId
    /\ ~InSeq(contracts[orders[i].contractId].sellerEntityId,
              EligibleFor(orders[i].buyerEntityId, orders[i].resource))

\* the ticks of the first k phases of a location's cycle
RECURSIVE PhaseTicksBefore(_, _)
PhaseTicksBefore(loc, k) ==
  IF k = 0 THEN 0
  ELSE Locations[loc].phases[k].ticks + PhaseTicksBefore(loc, k - 1)

\* the ticks of one round of a location's cycle
RoundTicks(loc) == PhaseTicksBefore(loc, Len(Locations[loc].phases))

\* the demand phases run so far: the tick in progress has run its own once the
\* phase counter is past it
AdvancesDone == IF pc = "demand" THEN tick - 1 ELSE tick

\* the phase states a location can be in
PhaseStatesOf(loc) ==
  UNION {{[phaseIndex |-> k - 1, ticksInPhase |-> n] :
            n \in 0..(Locations[loc].phases[k].ticks - 1)} :
         k \in 1..Len(Locations[loc].phases)}

\* C39: the demand phase state of every location with a positive demand and a
\* cycle is in range (a phase of the cycle, fewer ticks in it than the phase
\* has); after n advances it stands n ticks into the cycle, counted through the
\* phases in list order, each for its configured ticks, and round after
\* round; and the state an advance gives a location is the same whatever the
\* state of any other location.
DemandPhaseCycle ==
  /\ DOMAIN demandPhases = DemandLocations
  /\ \A loc \in DemandLocations :
       LET current == demandPhases[loc]
           cycle == Locations[loc].phases
       IN /\ current.phaseIndex \in 0..(Len(cycle) - 1)
          /\ current.ticksInPhase \in 0..(cycle[current.phaseIndex + 1].ticks - 1)
          /\ PhaseTicksBefore(loc, current.phaseIndex) + current.ticksInPhase
               = AdvancesDone % RoundTicks(loc)
          /\ \A other \in DemandLocations \ {loc} : \A s \in PhaseStatesOf(other) :
               advanceDemandPhases([demandPhases EXCEPT ![other] = s])[loc]
                 = advanceDemandPhases(demandPhases)[loc]

\* two locations have each been through a whole round of their cycles and
\* stand at different points of them
DemandPhaseCycleWitness ==
  /\ pc = "production"
  /\ \A loc \in DemandLocations : AdvancesDone >= RoundTicks(loc)
  /\ \E a \in DemandLocations : \E b \in DemandLocations :
       /\ RoundTicks(a) # RoundTicks(b)
       /\ demandPhases[a] # demandPhases[b]

(***************************************************************************)
(* The order queue of useTickEngine.  A call of a state setter queues an   *)
(* update; a render applies the queued updates in the order of the calls   *)
(* and copies the pendingOrders state into pendingOrdersRef.current.       *)
(***************************************************************************)
MaxHookCalls == 5

gameVars == <<tick, entities, player, processLines, orders, deliveries, contracts,
              demandPhases, sales, idCounter, pc, actionsLeft, prodLog, acceptedAt,
              pathTable, lineHistory, config, query>>

\* the state a render computes from the updates queued
RECURSIVE applyUpdates(_, _, _)
applyUpdates(queue, k, st) ==
  IF k > Len(queue) THEN st
  ELSE LET u == queue[k]
       IN applyUpdates(queue, k + 1,
            CASE u.kind = "append" ->
                   [st EXCEPT !.pending = Append(@, u.order)]
              [] u.kind = "clearOrders" ->
                   [st EXCEPT !.pending = <<>>,
                              !.removed = @ \cup {st.pending[i] : i \in 1..Len(st.pending)}]
              [] u.kind = "removePendingOrder" ->
                   [st EXCEPT !.pending = [i \in 1..(Len(st.pending)
                                                      - (IF u.index < Len(st.pending) THEN 1 ELSE 0)) |->
                                             IF i <= u.index THEN st.pending[i]
                                             ELSE st.pending[i + 1]],
                              !.removed = IF u.index < Len(st.pending)
                                          THEN @ \cup {st.pending[u.index + 1]} ELSE @]
              [] u.kind = "runOneTick" ->
                   [st EXCEPT !.calls = Append(@, u.orders)]
              [] u.kind = "tickDone" ->
                   [st EXCEPT !.pending = <<>>]
              [] u.kind = "setPaused" ->
                   [st EXCEPT !.paused = u.paused])

InitQueue ==
  /\ StartState
  /\ player = "shop"
  /\ pc = "arrivals"
  /\ config = GameConfig
  /\ pathTable = buildPathTable(GameConfig)
  /\ query = NoQuery
  /\ HookStart

HookCall ==
  /\ hookCalls < MaxHookCalls
  /\ hookCalls' = hookCalls + 1
  /\ UNCHANGED gameVars

\* submitOrder(order)
SubmitOrder ==
  /\ HookCall
  /\ submitted' = submitted + 1
  /\ updateQueue' = Append(updateQueue, [kind |-> "append", order |-> submitted + 1])
  /\ UNCHANGED <<pendingOrders, pendingOrdersRef, isPaused, intervalRef, tickCalls,
                 removedOrders>>

\* clearOrders()
ClearOrders ==
  /\ HookCall
  /\ updateQueue' = Append(updateQueue, [kind |-> "clearOrders"])
  /\ UNCHANGED <<pendingOrders, pendingOrdersRef, isPaused, intervalRef, tickCalls,
                 removedOrders, submitted>>

\* removePendingOrder(index), for an index of the list last rendered
RemovePendingOrder ==
  /\ HookCall
  /\ \E index \in 0..(Len(pendingOrders) - 1) :
       updateQueue' = Append(updateQueue, [kind |-> "removePendingOrder", index |-> index])
  /\ UNCHANGED <<pendingOrders, pendingOrdersRef, isPaused, intervalRef, tickCalls,
                 removedOrders, submitted>>

\* what step and the interval callback do
runTickWithPending ==
  /\ updateQueue' = updateQueue \o <<[kind |-> "runOneTick", orders |-> pendingOrdersRef],
                                     [kind |-> "tickDone"]>>
  /\ UNCHANGED <<pendingOrders, pendingOrdersRef, isPaused, intervalRef, tickCalls,
                 removedOrders, submitted>>

\* step()
Step ==
  /\ HookCall
  /\ runTickWithPending

\* the callback of the interval
TimerCallback ==
  /\ intervalRef
  /\ HookCall
  /\ runTickWithPending

\* setPaused(paused)
SetPaused ==
  /\ HookCall
  /\ updateQueue' = Append(updateQueue, [kind |-> "setPaused", paused |-> ~isPaused])
  /\ UNCHANGED <<pendingOrders, pendingOrdersRef, isPaused, intervalRef, tickCalls,
                 removedOrders, submitted>>

\* a re-render of the hook with its effect: the queued updates are applied,
\* the ref is set to the new pendingOrders, the interval runs unless paused
Render ==
  /\ updateQueue # <<>>
  /\ LET st == applyUpdates(updateQueue, 1,
                 [pending |-> pendingOrders, paused |-> isPaused, calls |-> tickCalls,
                  removed |-> removedOrders])
     IN /\ pendingOrders' = st.pending
        /\ pendingOrdersRef' = st.pending
        /\ isPaused' = st.paused
        /\ intervalRef' = ~st.paused
        /\ tickCalls' = st.calls
        /\ removedOrders' = st.removed
  /\ updateQueue' = <<>>
  /\ UNCHANGED <<submitted, hookCalls>>
  /\ UNCHANGED gameVars

NextQueue ==
  \/ SubmitOrder
  \/ ClearOrders
  \/ RemovePendingOrder
  \/ Step
  \/ TimerCallback
  \/ SetPaused
  \/ Render

SpecQueue == InitQueue /\ [][NextQueue]_vars

\* the runOneTick calls an order was passed to
TimesPassed(order) ==
  Cardinality({k \in 1..Len(tickCalls) : InSeq(order, tickCalls[k])})

\* C40: once every queued update is rendered, an order that was submitted and
\* not removed by clearOrders or removePendingOrder either waits in
\* pendingOrders and was passed to no runOneTick call, or has left
\* pendingOrders and was passed to exactly one.
PassedExactlyOnce ==
  updateQueue = <<>> =>
    \A order \in (1..submitted) \ removedOrders :
      \/ InSeq(order, pendingOrders) /\ TimesPassed(order) = 0
      \/ ~InSeq(order, pendingOrders) /\ TimesPassed(order) = 1

\* an order was passed to two runOneTick calls
OrderPassedTwice == \E order \in 1..submitted : TimesPassed(order) >= 2

\* an order is gone from the queue that no runOneTick call was given and no
\* clearOrders or removePendingOrder removed
OrderDropped ==
  /\ updateQueue = <<>>
  /\ \E order \in (1..submitted) \ removedOrders :
       ~InSeq(order, pendingOrders) /\ TimesPassed(order) = 0

====
